---- MODULE Spec2Model ----
(***************************************************************************)
(* Model of the request middleware of cedrickchee/skel (cmd/api).          *)
(*                                                                         *)
(* Part 1: the per-client rate limiter of cmd/api/middleware.go            *)
(* (rateLimit): the clients map, its mutex, the sweep goroutine and the    *)
(* token bucket of golang.org/x/time/rate that each map entry holds.       *)
(*                                                                         *)
(* Part 2: the authentication resolver and the first authorization guard   *)
(* of cmd/api/middleware.go (authenticate, requireAuthenticatedUser), with *)
(* strings kept as sequences of characters so that strings.Split and the   *)
(* length check of the token act on what the client sent.                  *)
(*                                                                         *)
(* Time is counted in ticks; TicksPerSecond ticks make one second.  A      *)
(* bucket counts token units; TokenUnit units make one token, so that a    *)
(* limiter of rps tokens per second gains exactly rps units per tick.      *)
(***************************************************************************)
EXTENDS Integers, Sequences, FiniteSets, TLC

(* ---------------------------- bounds ----------------------------------- *)

\* resolution of the clock: ticks in half a second
TicksPerHalfSecond == 1
\* calls of limiter.Allow() in one behaviour
MaxCalls == 6
\* advances of the clock by a minute in one behaviour
MaxMinutes == 4
\* advances of the clock by a tick in one behaviour of the recorded runs
MaxTicks == 2
\* background goroutines that run at the same time
MaxTasks == 2
MaxVersion == 4

(* ---------------------------- constants -------------------------------- *)

TicksPerSecond == 2 * TicksPerHalfSecond
Minute == 60 * TicksPerSecond
\* 3*time.Minute, the idle time after which the sweep deletes an entry
ThreeMinutes == 3 * Minute
\* 5*time.Second, the timeout of the context handed to srv.Shutdown
DrainWindow == 5 * TicksPerSecond
\* the sweep goroutine's time.Sleep(time.Minute)
SweepInterval == Minute
\* token units per token
TokenUnit == TicksPerSecond
\* the zero time.Time (lastSeen of a fresh client struct, last of a fresh limiter)
ZeroTime == 0
\* the clock reading when the server starts, long after the zero time
Epoch == 10 * Minute

StatusTooManyRequests == 429
StatusOK == 200
StatusUnauthorized == 401
StatusForbidden == 403
StatusAccepted == 202
StatusBadRequest == 400
StatusUnprocessableEntity == 422
StatusInternalServerError == 500
\* status of a response that has not been written
NoStatus == 0

\* the request goroutines, and the owners of the mutex
Workers == {"w1", "w2"}
NoOwner == "none"
Sweeper == "sweep"

\* r.RemoteAddr values: host and port, or a host without a port
RemoteAddrs ==
    { <<"10.0.0.1", "51000">>, <<"10.0.0.2", "51000">>, <<"10.0.0.1">> }
IPs == { a[1] : a \in RemoteAddrs }

\* values of -limiter-rps and -limiter-burst
Rates == {1, 2}
Bursts == {1, 2}
\* the amounts by which the clock advances in one step
Tick == 1
Steps == {Tick, Minute}

Min(a, b) == IF a < b THEN a ELSE b

VARIABLES
    config,     \* app.config.limiter: [enabled, rps, burst]
    now,        \* the clock, time.Now()
    mu,         \* owner of the mutex mu, NoOwner when unlocked
    clients,    \* the clients map: ip -> [limiter, lastSeen]
    pc,         \* position of each request goroutine
    rq,         \* locals of each request: addr, ip, seenAt
    rs,         \* outcome of each request: status, nextCalls, decision, ...
    sweepPc,    \* position of the sweep goroutine
    wakeAt,     \* time at which the sweep goroutine's Sleep returns
    todo,       \* keys the running range loop has not visited
    passStart,  \* time at which the running sweep pass took the mutex
    created,    \* limiters created per ip
    evicted,    \* entries deleted per ip
    env,        \* the run's environment: [peers, workers, ticks, minutes, traced,
                \* origins, routes]
    kept,       \* per ip, the entry the sweep deleted last
    callLog,    \* per traced ip, the calls of limiter.Allow(): [at, ok, lim]
    au,         \* per request: the context's identity, the response headers
                \* and what authenticate and the guards did
    main,       \* serve() in the main goroutine: [pc, err]
    sig,        \* the signal goroutine of serve(): [pc, err, deadline, ...]
    listening,  \* the listener of srv accepts connections
    wg,         \* the counter of app.wg
    tasks,      \* background goroutines that handlers started and that run
    exitCode,   \* the exit status of the process, NoExit while it runs
    movies,     \* the rows of the movies table, by id
    updateLog,  \* the calls of MovieModel.Update that changed a row
    logged      \* what the background goroutines passed to logger.PrintError

vars == << config, now, mu, clients, pc, rq, rs,
           sweepPc, wakeAt, todo, passStart, created, evicted, env, kept,
           callLog,
           au, main, sig, listening, wg, tasks, exitCode, logged,
           movies, updateLog >>

clockVars == << now >>
reqVars == << pc, rq, rs >>
sweepVars == << sweepPc, wakeAt, todo, passStart >>
histVars == << created, evicted, env, kept, callLog >>
authVars == << au >>
dataVars == << movies, updateLog >>
serveVars == << main, sig, listening, wg, tasks, exitCode, logged >>

(* ------------------------ net.SplitHostPort ---------------------------- *)

\* net.SplitHostPort(r.RemoteAddr): an address without a port is an error
SplitHostPort(addr) ==
    IF Len(addr) = 2
      THEN [ip |-> addr[1], port |-> addr[2], err |-> FALSE]
      ELSE [ip |-> "", port |-> "", err |-> TRUE]

(* ------------------ golang.org/x/time/rate.Limiter --------------------- *)

\* a limiter made with rate and burst exchanged
NewLimiterSwapped(id, rps, burst) ==
    [id |-> id, limit |-> burst, burst |-> rps, tokens |-> 0, last |-> ZeroTime]

\* no limiter, and no entry of the map of clients
NoLimiter == [id |-> 0, limit |-> 0, burst |-> 0, tokens |-> 0, last |-> ZeroTime]
NoEntry == [limiter |-> NoLimiter, lastSeen |-> ZeroTime]

\* rate.NewLimiter(r, b): an empty bucket last updated at the zero time
NewLimiter(id, rps, burst) ==
    [id |-> id, limit |-> rps, burst |-> burst, tokens |-> 0, last |-> ZeroTime]

\* Limiter.advance: the tokens in the bucket at time t
advance(lim, t) ==
    LET last == IF t < lim.last THEN t ELSE lim.last
        elapsed == t - last
        delta == elapsed * lim.limit
    IN  Min(lim.tokens + delta, lim.burst * TokenUnit)

\* a reservation that takes the token whatever the decision
reserveNAlways(lim, t) ==
    LET tokens == advance(lim, t) - TokenUnit
        ok == (1 <= lim.burst) /\ (tokens >= 0)
    IN  [ok |-> ok, lim |-> [lim EXCEPT !.last = t, !.tokens = tokens]]

\* Limiter.reserveN(t, 1, 0) as called by Allow(): the decision and the
\* limiter afterwards
reserveN(lim, t) ==
    LET tokens == advance(lim, t) - TokenUnit
        ok == (1 <= lim.burst) /\ (tokens >= 0)
    IN  [ok |-> ok,
         lim |-> IF ok THEN [lim EXCEPT !.last = t, !.tokens = tokens] ELSE lim]

(* ------------------------------ strings -------------------------------- *)

\* a string is the sequence of its characters; the string of n characters c
Repeat(c, n) == [i \in 1 .. n |-> c]

\* strings.Split(s, sep) for a separator of one character
RECURSIVE Split(_, _)
Split(s, sep) ==
    IF \A i \in 1 .. Len(s) : s[i] # sep
      THEN << s >>
      ELSE LET i == CHOOSE k \in 1 .. Len(s) :
                        s[k] = sep /\ \A j \in 1 .. k - 1 : s[j] # sep
           IN  << SubSeq(s, 1, i - 1) >> \o Split(SubSeq(s, i + 1, Len(s)), sep)

Space == " "
\* the literal "Bearer" of the header check, and the same word in lower case
Bearer == << "B", "e", "a", "r", "e", "r" >>
LowerBearer == << "b", "e", "a", "r", "e", "r" >>

\* http.Header.Get(key): the first value of the key, "" when the request has
\* no such header
HeaderGet(h, key) == IF h[key] = << >> THEN << >> ELSE h[key][1]

(* --------------------- internal/data: users and tokens ------------------ *)

ScopeActivation == "activation"
ScopeAuthentication == "authentication"
ScopePasswordReset == "password-reset"

\* the length of a token's plaintext
TokenLength == 26

\* data.ValidateTokenPlaintext followed by v.Valid()
ValidateTokenPlaintext(tokenPlaintext) ==
    /\ tokenPlaintext # << >>
    /\ Len(tokenPlaintext) = TokenLength

\* sha256.Sum256 of a plaintext, taken to be free of collisions
Hash(plaintext) == << "sha256", plaintext >>

\* data.AnonymousUser, a pointer to one distinguished empty User
AnonymousUser == [ref |-> "AnonymousUser", id |-> 0, activated |-> FALSE]
\* the request context without a value under userContextKey
NoUser == [ref |-> "nil", id |-> 0, activated |-> FALSE]

\* User.IsAnonymous(): u == AnonymousUser, a comparison of pointers
IsAnonymous(u) == u.ref = AnonymousUser.ref

\* the rows of the users table
Users == { [ref |-> "row", id |-> 1, activated |-> TRUE],
           [ref |-> "row", id |-> 2, activated |-> FALSE],
           [ref |-> "row", id |-> 3, activated |-> TRUE],
           [ref |-> "row", id |-> 4, activated |-> TRUE] }

\* the time to live of the token that expires during a run
TokenTTL == 2 * Minute
Never == 1000 * Minute

\* plaintexts of TokenLength characters
TokenA == Repeat("A", TokenLength)
TokenB == Repeat("B", TokenLength)
TokenC == Repeat("C", TokenLength)
TokenD == Repeat("D", TokenLength)
TokenE == Repeat("E", TokenLength)
TokenF == Repeat("F", TokenLength)
TokenG == Repeat("G", TokenLength)

\* the rows of the tokens table: hash, user_id, expiry, scope
Tokens ==
    { [hash |-> Hash(TokenA), userID |-> 1, expiry |-> Epoch + TokenTTL,
       scope |-> ScopeAuthentication],
      [hash |-> Hash(TokenB), userID |-> 2, expiry |-> Never,
       scope |-> ScopeAuthentication],
      [hash |-> Hash(TokenC), userID |-> 1, expiry |-> Never,
       scope |-> ScopeActivation],
      [hash |-> Hash(TokenD), userID |-> 2, expiry |-> Never,
       scope |-> ScopePasswordReset],
      [hash |-> Hash(TokenF), userID |-> 3, expiry |-> Never,
       scope |-> ScopeAuthentication],
      [hash |-> Hash(TokenG), userID |-> 4, expiry |-> Never,
       scope |-> ScopeAuthentication] }

\* UserModel.GetForToken(tokenScope, tokenPlaintext) at time t: the users
\* joined to a token with this hash and scope that has not expired; the
\* empty set is sql.ErrNoRows, returned as ErrRecordNotFound
GetForToken(tokenScope, tokenPlaintext, t) ==
    { u \in Users : \E tk \in Tokens :
        /\ tk.hash = Hash(tokenPlaintext)
        /\ tk.scope = tokenScope
        /\ tk.expiry > t
        /\ tk.userID = u.id }

\* the permission codes of the routes
MoviesRead == "movies:read"
MoviesWrite == "movies:write"
Codes == { MoviesRead, MoviesWrite }

\* the rows of users_permissions joined to permissions: user_id, codes
UsersPermissions ==
    { [userID |-> 1, permissions |-> << MoviesRead, MoviesWrite >>],
      [userID |-> 2, permissions |-> << MoviesRead >>],
      [userID |-> 3, permissions |-> << MoviesRead >>] }

\* a search that looks at the first code only
IncludeFirst(p, code) == Len(p) > 0 /\ p[1] = code

\* Permissions.Include(code): the slice holds the code
Include(p, code) == \E i \in 1..Len(p) : p[i] = code

\* PermissionModel.GetAllForUser(userID) when the query succeeds: the codes
\* of the user's rows, the empty slice when there is none
GetAllForUser(userID) ==
    IF \E row \in UsersPermissions : row.userID = userID
      THEN (CHOOSE row \in UsersPermissions : row.userID = userID).permissions
      ELSE << >>

\* mockUserPermissions: the rows of the mock Permission Store, for mockUser
\* (id 1) and the user 2
MockUserPermissions ==
    { [userID |-> 1, permissions |-> << MoviesRead, MoviesWrite >>],
      [userID |-> 2, permissions |-> << MoviesRead >>] }

\* MockPermissionModel.GetAllForUser(userID): the codes of the first row of
\* the user, ErrRecordNotFound when there is none
MockGetAllForUser(userID) ==
    IF \E row \in MockUserPermissions : row.userID = userID
      THEN [permissions |->
                (CHOOSE row \in MockUserPermissions :
                    row.userID = userID).permissions,
            err |-> "nil"]
      ELSE [permissions |-> << >>, err |-> "ErrRecordNotFound"]

\* values of the Origin header ("" when absent) and the origins of
\* app.config.cors.trustedOrigins
TrustedOrigin == "http://localhost:9000"
OtherOrigin == "http://localhost:9002"
TrustedOrigins == { TrustedOrigin }
Origins == { "", TrustedOrigin, OtherOrigin }

\* values of the Authorization header
HeaderValues ==
    { << >>,
      Bearer,
      Bearer \o << Space >>,
      Bearer \o << Space >> \o TokenA,
      Bearer \o << Space >> \o TokenB,
      Bearer \o << Space >> \o TokenC,
      Bearer \o << Space >> \o TokenD,
      Bearer \o << Space >> \o TokenE,
      Bearer \o << Space >> \o TokenF,
      Bearer \o << Space >> \o TokenG,
      Bearer \o << Space >> \o Repeat("A", TokenLength - 1),
      Bearer \o << Space >> \o Repeat("A", TokenLength + 1),
      Bearer \o << Space, Space >> \o TokenA,
      Bearer \o << Space >> \o TokenA \o << Space >>,
      LowerBearer \o << Space >> \o TokenA,
      TokenA }

\* r.Header: no Authorization header, or one with a value
RequestHeaders ==
    { [Authorization |-> << >>] }
        \cup { [Authorization |-> << v >>] : v \in HeaderValues }

(* ----------------------------- state ----------------------------------- *)

\* the routes of the router by the guard that wraps the handler and the
\* permission code the guard requires
Routes ==
    { [guard |-> "none", code |-> ""],
      [guard |-> "authenticated", code |-> ""],
      [guard |-> "activated", code |-> ""] }
        \cup { [guard |-> "permission", code |-> c] : c \in Codes }
NoRoute == [guard |-> "", code |-> ""]

NoLocals == [addr |-> <<>>, ip |-> "", seenAt |-> ZeroTime]
NoResponse == [status |-> NoStatus, nextCalls |-> 0, decision |-> "none",
               locks |-> 0, unlocks |-> 0, connClose |-> FALSE]
\* a request that has not reached authenticate: no identity in its context,
\* no header on its response
NoAuth == [header |-> [Authorization |-> << >>], read |-> FALSE,
           user |-> NoUser, sets |-> 0, token |-> << >>, lookups |-> 0,
           err |-> "nil",
           vary |-> << >>, challenge |-> "", message |-> "",
           nextCalls |-> 0, guards |-> 0, wrapped |-> 0,
           allowOrigin |-> "", corsNext |-> 0, route |-> NoRoute,
           activations |-> 0, inner |-> 0,
           permLookups |-> 0, permErr |-> "nil", permitted |-> 0,
           handled |-> 0, writes |-> 0, panicValue |-> "",
           startedAtPanic |-> FALSE, mail |-> "none", regErr |-> "nil",
           param |-> << >>, movie |-> << >>, store |-> "none",
           updErr |-> "none", readVersion |-> 0]

\* the signal goroutine before a signal: blocked on <-quit
NoSignal == [pc |-> "quit", err |-> "nil", deadline |-> ZeroTime,
             lnerr |-> FALSE, inFlight |-> {}, result |-> "none", sends |-> 0,
             waits |-> 0]
\* the process has not exited
NoExit == -1

\* the rows of the movies table when the server starts
MoviesTable == [i \in {1} |-> [ID |-> 1, Title |-> "Casablanca", Version |-> 1]]

\* the state when the server starts, but for the map of clients
InitRest ==
    /\ now = Epoch
    /\ mu = NoOwner
    /\ pc = [r \in Workers |-> "idle"]
    /\ rq = [r \in Workers |-> NoLocals]
    /\ rs = [r \in Workers |-> NoResponse]
    /\ sweepPc = "sleep"
    /\ wakeAt = Epoch + SweepInterval
    /\ todo = {}
    /\ passStart = ZeroTime
    /\ kept = [i \in IPs |-> NoEntry]
    /\ evicted = [i \in IPs |-> 0]
    /\ callLog = [i \in IPs |-> << >>]
    /\ au = [r \in Workers |-> NoAuth]
    /\ main = [pc |-> "start", err |-> "nil", las |-> "none"]
    /\ sig = NoSignal
    /\ listening = FALSE
    /\ wg = 0
    /\ logged = {}
    /\ tasks = 0
    /\ exitCode = NoExit
    /\ movies = MoviesTable
    /\ updateLog = << >>

InitCommon ==
    /\ clients = << >>
    /\ created = [i \in IPs |-> 0]
    /\ InitRest

\* the remote addresses of a client ip
AddrsOf(ip) == {a \in RemoteAddrs : a[1] = ip}

\* concurrent requests of one client, the clock moving by minutes
Init ==
    /\ config \in [enabled : BOOLEAN, rps : Rates, burst : Bursts]
    /\ env = [peers |-> AddrsOf("10.0.0.1"), workers |-> Workers,
              ticks |-> 0, minutes |-> MaxMinutes, traced |-> {},
              origins |-> {}, routes |-> {}]
    /\ InitCommon

\* concurrent requests of one client and one sweep, for the progress of the
\* goroutines that share the mutex
InitLive ==
    /\ config \in [enabled : BOOLEAN, rps : {1}, burst : {1}]
    /\ env = [peers |-> AddrsOf("10.0.0.1"), workers |-> Workers,
              ticks |-> 0, minutes |-> 1, traced |-> {},
              origins |-> {}, routes |-> {}]
    /\ InitCommon

\* a burst that three minutes at the lowest rate do not refill
WideBurst == 400

\* the limiter after n calls of Allow() at the one time t, n at least 1 and
\* at most the burst: the first call fills the bucket and takes a token,
\* each further call finds no time elapsed and takes another token
Drained(lim, n, t) ==
    LET first == reserveN(lim, t).lim
    IN  [first EXCEPT !.tokens = @ - (n - 1) * TokenUnit]

\* one client whose requests have, at the start of the run, taken the whole
\* burst from its bucket
InitEvict ==
    /\ config \in [enabled : {TRUE}, rps : Rates, burst : {2, WideBurst}]
    /\ env = [peers |-> {<< "10.0.0.1", "51000" >>}, workers |-> {"w1"},
              ticks |-> 0, minutes |-> MaxMinutes, traced |-> {"10.0.0.1"},
              origins |-> {}, routes |-> {}]
    /\ clients = [i \in {"10.0.0.1"} |->
                    [limiter |-> Drained(NewLimiter(1, config.rps, config.burst),
                                         config.burst, Epoch),
                     lastSeen |-> Epoch]]
    /\ created = [i \in IPs |-> IF i = "10.0.0.1" THEN 1 ELSE 0]
    /\ InitRest

\* one request at a time from two clients, the clock moving by minutes
InitSweep ==
    /\ config \in [enabled : {TRUE}, rps : Rates, burst : Bursts]
    /\ env = [peers |-> {a \in RemoteAddrs : ~SplitHostPort(a).err},
              workers |-> {"w1"},
              ticks |-> 0, minutes |-> MaxMinutes, traced |-> {},
              origins |-> {}, routes |-> {}]
    /\ InitCommon

\* one request at a time from one client, the clock moving by ticks, the
\* calls of limiter.Allow() recorded
InitSeq ==
    /\ config \in [enabled : {TRUE}, rps : Rates, burst : Bursts]
                   \cup {[enabled |-> TRUE, rps |-> 2, burst |-> 4]}
    /\ env = [peers |-> AddrsOf("10.0.0.1"), workers |-> {"w1"},
              ticks |-> MaxTicks, minutes |-> 1, traced |-> {"10.0.0.1"},
              origins |-> {}, routes |-> {}]
    /\ InitCommon

\* one request at a time from two clients, the clock moving by one tick into
\* each minute, the calls of limiter.Allow() of the first client recorded
InitPair ==
    /\ config \in [enabled : {TRUE}, rps : Rates, burst : Bursts]
    /\ env = [peers |-> {a \in RemoteAddrs : ~SplitHostPort(a).err},
              workers |-> {"w1"},
              ticks |-> Tick, minutes |-> 1, traced |-> {"10.0.0.1"},
              origins |-> {}, routes |-> {}]
    /\ InitCommon

\* concurrent requests with the limiter switched off, the clock moving by
\* minutes past the expiry of a token
InitAuth ==
    /\ config \in [enabled : {FALSE}, rps : {2}, burst : {4}]
    /\ env = [peers |-> {<< "10.0.0.1", "51000" >>}, workers |-> Workers,
              ticks |-> 0, minutes |-> MaxMinutes, traced |-> {},
              origins |-> {""},
              routes |-> {ro \in Routes : ro.guard \in {"none", "authenticated"}}]
    /\ InitCommon

\* concurrent requests on routes without a guard, whose handlers may panic
InitPanic ==
    /\ config \in [enabled : {FALSE}, rps : {2}, burst : {4}]
    /\ env = [peers |-> {<< "10.0.0.1", "51000" >>}, workers |-> Workers,
              ticks |-> 0, minutes |-> 0, traced |-> {},
              origins |-> {""},
              routes |-> {ro \in Routes : ro.guard = "none"}]
    /\ InitCommon

\* two callers of the Movie Store, no request on the way
InitUpdate ==
    /\ config \in [enabled : {FALSE}, rps : {2}, burst : {4}]
    /\ env = [peers |-> {}, workers |-> Workers,
              ticks |-> 0, minutes |-> 0, traced |-> {},
              origins |-> {}, routes |-> {}]
    /\ InitCommon

\* concurrent requests on any route of a chain without authenticate
InitBare ==
    /\ config \in [enabled : {FALSE}, rps : {2}, burst : {4}]
    /\ env = [peers |-> {<< "10.0.0.1", "51000" >>}, workers |-> Workers,
              ticks |-> 0, minutes |-> 0, traced |-> {},
              origins |-> Origins, routes |-> Routes]
    /\ InitCommon

\* one request at a time through the limiter and the rest of the chain
InitChain ==
    /\ config \in [enabled : {TRUE}, rps : Rates, burst : Bursts]
    /\ env = [peers |-> {<< "10.0.0.1", "51000" >>}, workers |-> {"w1"},
              ticks |-> 0, minutes |-> 0, traced |-> {},
              origins |-> Origins, routes |-> Routes]
    /\ InitCommon

\* the process from the call of serve() to its exit, one connection
InitServe ==
    /\ config \in [enabled : {FALSE}, rps : {2}, burst : {4}]
    /\ env = [peers |-> {<< "10.0.0.1", "51000" >>}, workers |-> {"w1"},
              ticks |-> 0, minutes |-> 1, traced |-> {},
              origins |-> {""},
              routes |-> {ro \in Routes : ro.guard = "none"}]
    /\ InitCommon

\* one request at a time with any Origin header on any route
InitGuard ==
    /\ config \in [enabled : {FALSE}, rps : {2}, burst : {4}]
    /\ env = [peers |-> {<< "10.0.0.1", "51000" >>}, workers |-> {"w1"},
              ticks |-> 0, minutes |-> MaxMinutes, traced |-> {},
              origins |-> Origins, routes |-> Routes]
    /\ InitCommon

\* the map m with key k set to v
MapSet(m, k, v) == [i \in DOMAIN m \cup {k} |-> IF i = k THEN v ELSE m[i]]
\* the map m after delete(m, k)
MapDelete(m, k) == [i \in DOMAIN m \ {k} |-> m[i]]

\* the requests to ip that are on their way to limiter.Allow()
BeforeAllow == {"rateLimit", "lock", "lookup", "create", "seen", "allow"}
InFlight(ip) ==
    Cardinality({r \in Workers :
        /\ pc[r] \in BeforeAllow
        /\ ip \in {rq[r].ip, SplitHostPort(rq[r].addr).ip}})

\* a traced ip makes at most MaxCalls calls of limiter.Allow()
WithinBudget(addr) ==
    LET ip == SplitHostPort(addr).ip
    IN  ip \in env.traced => Len(callLog[ip]) + InFlight(ip) < MaxCalls

(* --------------------------- the clock --------------------------------- *)

\* the advances of the clock so far, by a minute and by a tick
MinutesPassed == (now - Epoch) \div Minute
TicksPassed == (now - Epoch) % Minute

AdvanceTime(d) ==
    /\ d = Minute => MinutesPassed < env.minutes
    /\ d = Tick => TicksPassed < env.ticks
    /\ now' = now + d
    /\ UNCHANGED << config, dataVars, serveVars, authVars, mu, clients, reqVars, sweepVars, histVars >>

(* --------------------- rateLimit: request side ------------------------- *)

\* the server accepts a request and its goroutine enters the handler chain
StartRequest(r, addr) ==
    /\ r \in env.workers
    /\ addr \in env.peers
    /\ pc[r] \in {"idle", "done"}
    /\ WithinBudget(addr)
    /\ pc' = [pc EXCEPT ![r] = "rateLimit"]
    /\ rq' = [rq EXCEPT ![r] = [NoLocals EXCEPT !.addr = addr]]
    /\ rs' = [rs EXCEPT ![r] = NoResponse]
    /\ au' = [au EXCEPT ![r] = NoAuth]
    /\ UNCHANGED << config, dataVars, serveVars, clockVars, mu, clients, sweepVars, histVars >>

\* the request's goroutine leaves the handler chain
Finish(r, status) ==
    /\ pc' = [pc EXCEPT ![r] = "done"]
    /\ rq' = [rq EXCEPT ![r] = NoLocals]
    /\ rs' = [rs EXCEPT ![r].status = status,
                        ![r].connClose = (pc[r] = "panic")]

\* an entry into the limiter that does not look at the enabled flag
EnterRateLimitAlways(r) ==
    /\ pc[r] = "rateLimit"
    /\ LET split == SplitHostPort(rq[r].addr)
       IN  IF split.err
             THEN Finish(r, StatusInternalServerError)
             ELSE /\ pc' = [pc EXCEPT ![r] = "lock"]
                  /\ rq' = [rq EXCEPT ![r].ip = split.ip, ![r].addr = <<>>]
                  /\ UNCHANGED rs
    /\ UNCHANGED << config, dataVars, serveVars, authVars, clockVars, mu, clients, sweepVars, histVars >>

\* lines 97-103: the enabled check and net.SplitHostPort
EnterRateLimit(r) ==
    /\ pc[r] = "rateLimit"
    /\ LET split == SplitHostPort(rq[r].addr)
       IN  IF ~config.enabled
             THEN /\ pc' = [pc EXCEPT ![r] = "next"]
                  /\ UNCHANGED << rq, rs >>
             ELSE IF split.err
               THEN Finish(r, StatusInternalServerError)
               ELSE /\ pc' = [pc EXCEPT ![r] = "lock"]
                    /\ rq' = [rq EXCEPT ![r].ip = split.ip, ![r].addr = <<>>]
                    /\ UNCHANGED rs
    /\ UNCHANGED << config, dataVars, serveVars, authVars, clockVars, mu, clients, sweepVars, histVars >>

\* a Lock that does not wait for the mutex to be free
LockNoWait(r) ==
    /\ pc[r] = "lock"
    /\ mu' = r
    /\ pc' = [pc EXCEPT ![r] = "lookup"]
    /\ rs' = [rs EXCEPT ![r].locks = @ + 1]
    /\ UNCHANGED << config, dataVars, serveVars, authVars, clockVars, clients, rq, sweepVars, histVars >>

\* line 110: mu.Lock()
Lock(r) ==
    /\ pc[r] = "lock"
    /\ mu = NoOwner
    /\ mu' = r
    /\ pc' = [pc EXCEPT ![r] = "lookup"]
    /\ rs' = [rs EXCEPT ![r].locks = @ + 1]
    /\ UNCHANGED << config, dataVars, serveVars, authVars, clockVars, clients, rq, sweepVars, histVars >>

\* line 115: if _, found := clients[ip]; !found
Lookup(r) ==
    /\ pc[r] = "lookup"
    /\ pc' = [pc EXCEPT ![r] =
                 IF rq[r].ip \in DOMAIN clients THEN "seen" ELSE "create"]
    /\ UNCHANGED << config, dataVars, serveVars, authVars, clockVars, mu, clients, rq, rs, sweepVars, histVars >>

\* lines 118-122: clients[ip] = &client{limiter: rate.NewLimiter(rps, burst)}
Create(r) ==
    /\ pc[r] = "create"
    /\ clients' = MapSet(clients, rq[r].ip,
                     [limiter |-> NewLimiter(created[rq[r].ip] + 1,
                                             config.rps, config.burst),
                      lastSeen |-> ZeroTime])
    /\ created' = [created EXCEPT ![rq[r].ip] = @ + 1]
    /\ pc' = [pc EXCEPT ![r] = "seen"]
    /\ UNCHANGED << config, dataVars, serveVars, authVars, clockVars, mu, rq, rs, sweepVars, evicted, env, kept,
                    callLog >>

\* the entry with lastSeen left as it is
Untouched(entry, t) == entry

\* the entry with lastSeen set to t
Touch(entry, t) == [entry EXCEPT !.lastSeen = t]

\* a refresh of lastSeen that stamps every entry of the map
UpdateLastSeenAll(r) ==
    /\ pc[r] = "seen"
    /\ IF rq[r].ip \in DOMAIN clients
         THEN /\ clients' = [i \in DOMAIN clients |-> Touch(clients[i], now)]
              /\ rq' = [rq EXCEPT ![r].seenAt = now]
              /\ pc' = [pc EXCEPT ![r] = "allow"]
         ELSE /\ pc' = [pc EXCEPT ![r] = "panic"]
              /\ UNCHANGED << clients, rq >>
    /\ UNCHANGED << config, dataVars, serveVars, authVars, clockVars, mu, rs, sweepVars, histVars >>

\* line 126: clients[ip].lastSeen = time.Now(); a missing entry is a nil
\* pointer, and the store through it panics
UpdateLastSeen(r) ==
    /\ pc[r] = "seen"
    /\ IF rq[r].ip \in DOMAIN clients
         THEN /\ clients' = [clients EXCEPT ![rq[r].ip] = Touch(@, now)]
              /\ rq' = [rq EXCEPT ![r].seenAt = now]
              /\ pc' = [pc EXCEPT ![r] = "allow"]
         ELSE /\ pc' = [pc EXCEPT ![r] = "panic"]
              /\ UNCHANGED << clients, rq >>
    /\ UNCHANGED << config, dataVars, serveVars, authVars, clockVars, mu, rs, sweepVars, histVars >>

\* a token check that asks the limiter without taking the token
AllowNoConsume(r) ==
    /\ pc[r] = "allow"
    /\ IF rq[r].ip \in DOMAIN clients
         THEN LET ip == rq[r].ip
                  res == reserveN(clients[ip].limiter, now)
              IN  /\ rs' = [rs EXCEPT ![r].decision =
                               IF res.ok THEN "allow" ELSE "deny"]
                  /\ callLog' = IF ip \in env.traced
                        THEN [callLog EXCEPT ![ip] =
                                Append(@, [at |-> now, ok |-> res.ok,
                                           lim |-> clients[ip].limiter.id])]
                        ELSE callLog
                  /\ pc' = [pc EXCEPT ![r] =
                               IF res.ok THEN "unlockAllow" ELSE "unlockDeny"]
         ELSE /\ pc' = [pc EXCEPT ![r] = "panic"]
              /\ UNCHANGED << rs, callLog >>
    /\ UNCHANGED << config, dataVars, serveVars, authVars, clockVars, mu, clients, rq, sweepVars, created,
                    evicted, env, kept >>

\* a token check that calls limiter.Allow() twice and uses the second answer
AllowTwice(r) ==
    /\ pc[r] = "allow"
    /\ IF rq[r].ip \in DOMAIN clients
         THEN LET ip == rq[r].ip
                  first == reserveN(clients[ip].limiter, now)
                  res == reserveN(first.lim, now)
              IN  /\ clients' = [clients EXCEPT ![ip].limiter = res.lim]
                  /\ rs' = [rs EXCEPT ![r].decision =
                               IF res.ok THEN "allow" ELSE "deny"]
                  /\ callLog' = IF ip \in env.traced
                        THEN [callLog EXCEPT ![ip] =
                                Append(@, [at |-> now, ok |-> res.ok,
                                           lim |-> clients[ip].limiter.id])]
                        ELSE callLog
                  /\ pc' = [pc EXCEPT ![r] =
                               IF res.ok THEN "unlockAllow" ELSE "unlockDeny"]
         ELSE /\ pc' = [pc EXCEPT ![r] = "panic"]
              /\ UNCHANGED << clients, rs, callLog >>
    /\ UNCHANGED << config, dataVars, serveVars, authVars, clockVars, mu, rq, sweepVars, created, evicted,
                    env, kept >>

\* line 140: clients[ip].limiter.Allow()
Allow(r) ==
    /\ pc[r] = "allow"
    /\ IF rq[r].ip \in DOMAIN clients
         THEN LET ip == rq[r].ip
                  res == reserveN(clients[ip].limiter, now)
              IN  /\ clients' = [clients EXCEPT ![ip].limiter = res.lim]
                  /\ rs' = [rs EXCEPT ![r].decision =
                               IF res.ok THEN "allow" ELSE "deny"]
                  /\ callLog' = IF ip \in env.traced
                        THEN [callLog EXCEPT ![ip] =
                                Append(@, [at |-> now, ok |-> res.ok,
                                           lim |-> clients[ip].limiter.id])]
                        ELSE callLog
                  /\ pc' = [pc EXCEPT ![r] =
                               IF res.ok THEN "unlockAllow" ELSE "unlockDeny"]
         ELSE /\ pc' = [pc EXCEPT ![r] = "panic"]
              /\ UNCHANGED << clients, rs, callLog >>
    /\ UNCHANGED << config, dataVars, serveVars, authVars, clockVars, mu, rq, sweepVars, created, evicted,
                    env, kept >>

\* a denied path that keeps the mutex
UnlockDenyKeepsMutex(r) ==
    /\ pc[r] = "unlockDeny"
    /\ rq' = [rq EXCEPT ![r].seenAt = ZeroTime]
    /\ pc' = [pc EXCEPT ![r] = "deny"]
    /\ UNCHANGED << config, dataVars, serveVars, authVars, clockVars, mu, clients, rs,
                    sweepVars, histVars >>

\* line 141: mu.Unlock() on the denied path
UnlockDeny(r) ==
    /\ pc[r] = "unlockDeny"
    /\ mu' = NoOwner
    /\ rs' = [rs EXCEPT ![r].unlocks = @ + 1]
    /\ rq' = [rq EXCEPT ![r].seenAt = ZeroTime]
    /\ pc' = [pc EXCEPT ![r] = "deny"]
    /\ UNCHANGED << config, dataVars, serveVars, authVars, clockVars, clients, sweepVars, histVars >>

\* a denial that answers 429 and then falls through to the next handler
RateLimitExceededNoReturn(r) ==
    /\ pc[r] = "deny"
    /\ rs' = [rs EXCEPT ![r].status = StatusTooManyRequests]
    /\ pc' = [pc EXCEPT ![r] = "next"]
    /\ UNCHANGED << config, dataVars, serveVars, authVars, clockVars, mu, clients, rq, sweepVars, histVars >>

\* lines 142-143: app.rateLimitExceededResponse(w, r); return
RateLimitExceeded(r) ==
    /\ pc[r] = "deny"
    /\ Finish(r, StatusTooManyRequests)
    /\ UNCHANGED << config, dataVars, serveVars, authVars, clockVars, mu, clients, sweepVars, histVars >>

\* an unlock deferred until the handler returns
UnlockDeferred(r) ==
    /\ pc[r] = "unlockAllow"
    /\ pc' = [pc EXCEPT ![r] = "next"]
    /\ UNCHANGED << config, dataVars, serveVars, authVars, clockVars, mu, clients, rq, rs, sweepVars, histVars >>

\* line 150: mu.Unlock() on the allowed path
UnlockAllow(r) ==
    /\ pc[r] = "unlockAllow"
    /\ mu' = NoOwner
    /\ rs' = [rs EXCEPT ![r].unlocks = @ + 1]
    /\ rq' = [rq EXCEPT ![r].seenAt = ZeroTime]
    /\ pc' = [pc EXCEPT ![r] = "next"]
    /\ UNCHANGED << config, dataVars, serveVars, authVars, clockVars, clients, sweepVars, histVars >>

\* line 153: next.ServeHTTP(w, r) is entered
ServeNext(r) ==
    /\ pc[r] = "next"
    /\ rs' = [rs EXCEPT ![r].nextCalls = @ + 1]
    /\ pc' = [pc EXCEPT ![r] = "downstream"]
    /\ UNCHANGED << config, dataVars, serveVars, authVars, clockVars, mu, clients, rq, sweepVars, histVars >>

\* the downstream handlers return, or the deferred function of recoverPanic
\* (lines 21-37) answers a panic with 500 and Connection: close
Return(r) ==
    /\ pc[r] \in {"downstream", "panic"}
    /\ Finish(r, IF pc[r] = "panic" THEN StatusInternalServerError
                                    ELSE rs[r].status)
    /\ UNCHANGED << config, dataVars, serveVars, authVars, clockVars, mu, clients, sweepVars, histVars >>

(* --------------------- rateLimit: sweep goroutine ---------------------- *)

\* line 74: time.Sleep(time.Minute) returns
SweepWake ==
    /\ sweepPc = "sleep"
    /\ now >= wakeAt
    /\ sweepPc' = "lock"
    /\ UNCHANGED << config, dataVars, serveVars, authVars, clockVars, mu, clients, reqVars, wakeAt, todo,
                    passStart, histVars >>

\* a sweep that starts its pass without taking the mutex
SweepNoLock ==
    /\ sweepPc = "lock"
    /\ sweepPc' = "range"
    /\ todo' = DOMAIN clients
    /\ passStart' = now
    /\ UNCHANGED << config, dataVars, serveVars, authVars, clockVars, mu, clients, reqVars, wakeAt, histVars >>

\* line 78: mu.Lock(), and the range loop of line 82 starts
SweepLock ==
    /\ sweepPc = "lock"
    /\ mu = NoOwner
    /\ mu' = Sweeper
    /\ sweepPc' = "range"
    /\ todo' = DOMAIN clients
    /\ passStart' = now
    /\ UNCHANGED << config, dataVars, serveVars, authVars, clockVars, clients, reqVars, wakeAt, histVars >>

\* every entry counts as idle
ExpiredAlways(entry, t) == TRUE

\* an entry counts as idle when it was last seen exactly three minutes ago
ExpiredAtThree(entry, t) == t - entry.lastSeen >= ThreeMinutes

\* line 83: time.Since(client.lastSeen) > 3*time.Minute
Expired(entry, t) == t - entry.lastSeen > ThreeMinutes

\* lines 82-86: one iteration of the range loop
SweepStep(ip) ==
    /\ sweepPc = "range"
    /\ ip \in todo
    /\ todo' = todo \ {ip}
    /\ IF ip \in DOMAIN clients /\ Expired(clients[ip], now)
         THEN /\ clients' = MapDelete(clients, ip)
              /\ evicted' = [evicted EXCEPT ![ip] = @ + 1]
              /\ kept' = [kept EXCEPT ![ip] = clients[ip]]
         ELSE UNCHANGED << clients, evicted, kept >>
    /\ UNCHANGED << config, dataVars, serveVars, authVars, clockVars, mu, reqVars, sweepPc, wakeAt, passStart,
                    created, env, callLog >>

\* line 89: mu.Unlock(), and the loop goes back to time.Sleep
SweepUnlock ==
    /\ sweepPc = "range"
    /\ todo = {}
    /\ mu' = NoOwner
    /\ sweepPc' = "sleep"
    /\ wakeAt' = now + SweepInterval
    /\ passStart' = ZeroTime
    /\ UNCHANGED << config, dataVars, serveVars, authVars, clockVars, clients, reqVars, todo, histVars >>

(* ----------------------------- errors.go ------------------------------- *)

\* the response after errorResponse(w, r, status, message)
errorResponse(a, message) ==
    [a EXCEPT !.message = message, !.writes = @ + 1]

\* serverErrorResponse: the generic message, whatever the error was
serverErrorResponse(a) ==
    errorResponse(a, "the server encountered a problem and could not process your request")

\* invalidAuthenticationTokenResponse: the challenge header, then the error
invalidAuthenticationTokenResponse(a) ==
    errorResponse([a EXCEPT !.challenge = "Bearer"],
                  "invalid or missing authentication token")

\* authenticationRequiredResponse: the challenge header, then the error
authenticationRequiredResponse(a) ==
    errorResponse([a EXCEPT !.challenge = "Bearer"],
                  "you must be authenticated to access this resource")

\* inactiveAccountResponse
inactiveAccountResponse(a) ==
    errorResponse(a, "your user account must be activated to access this resource")

\* notPermittedResponse
notPermittedResponse(a) ==
    errorResponse(a, "your user account doesn't have the necessary permissions to access this resource")

(* ----------------------------- enableCORS ------------------------------ *)

\* the handler that rateLimit calls as next: both Vary headers are added;
\* a trusted origin is echoed in Access-Control-Allow-Origin, and its
\* preflight request (OPTIONS with Access-Control-Request-Method) is
\* answered 200 without a call of next; every other request is handed on
EnableCORS(r, origin, preflight) ==
    /\ pc[r] = "downstream"
    /\ LET varied == [au[r] EXCEPT !.vary =
                        @ \o << "Origin", "Access-Control-Request-Method" >>]
           trusted == /\ origin # ""
                      /\ Cardinality(TrustedOrigins) # 0
                      /\ origin \in TrustedOrigins
           allowed == IF trusted THEN [varied EXCEPT !.allowOrigin = origin]
                                 ELSE varied
       IN  IF trusted /\ preflight
             THEN /\ au' = [au EXCEPT ![r] = [allowed EXCEPT !.writes = @ + 1]]
                  /\ Finish(r, StatusOK)
             ELSE /\ au' = [au EXCEPT ![r] =
                              [allowed EXCEPT !.corsNext = @ + 1]]
                  /\ pc' = [pc EXCEPT ![r] = "authenticate"]
                  /\ UNCHANGED << rq, rs >>
    /\ UNCHANGED << config, dataVars, serveVars, clockVars, mu, clients, sweepVars, histVars >>

(* ---------------------------- authenticate ----------------------------- *)

\* contextSetUser: the request with user under userContextKey
contextSetUser(a, user) == [a EXCEPT !.user = user, !.sets = @ + 1]

\* a handler that does not add the Vary header
AddVaryMissing(r) ==
    /\ pc[r] = "authenticate"
    /\ pc' = [pc EXCEPT ![r] = "authHeader"]
    /\ UNCHANGED << config, dataVars, serveVars, authVars, clockVars, mu, clients, rq, rs,
                    sweepVars, histVars >>

\* line 164: w.Header().Add("Vary", "Authorization"), the first statement of
\* the handler that enableCORS calls as next
AddVary(r) ==
    /\ pc[r] = "authenticate"
    /\ au' = [au EXCEPT ![r].vary = Append(@, "Authorization")]
    /\ pc' = [pc EXCEPT ![r] = "authHeader"]
    /\ UNCHANGED << config, dataVars, serveVars, clockVars, mu, clients, rq, rs, sweepVars,
                    histVars >>

\* a reading of the header that takes a request without credentials for one
\* with bad credentials
ParseAuthorizationNoAnonymous(h) ==
    LET authorizationHeader == HeaderGet(h, "Authorization")
        headerParts == Split(authorizationHeader, Space)
    IN  IF Len(headerParts) # 2 \/ headerParts[1] # Bearer
          THEN [kind |-> "invalid", token |-> << >>]
          ELSE IF ~ValidateTokenPlaintext(headerParts[2])
            THEN [kind |-> "invalid", token |-> << >>]
            ELSE [kind |-> "token", token |-> headerParts[2]]

\* a reading of the header that does not validate the shape of the token
ParseAuthorizationNoShape(h) ==
    LET authorizationHeader == HeaderGet(h, "Authorization")
        headerParts == Split(authorizationHeader, Space)
    IN  IF authorizationHeader = << >>
          THEN [kind |-> "anonymous", token |-> << >>]
          ELSE IF Len(headerParts) # 2 \/ headerParts[1] # Bearer
            THEN [kind |-> "invalid", token |-> << >>]
            ELSE [kind |-> "token", token |-> headerParts[2]]

\* lines 168-204: the value of the Authorization header, split at the spaces,
\* the scheme compared with "Bearer" and the shape of the token validated
ParseAuthorization(h) ==
    LET authorizationHeader == HeaderGet(h, "Authorization")
        headerParts == Split(authorizationHeader, Space)
    IN  IF authorizationHeader = << >>
          THEN [kind |-> "anonymous", token |-> << >>]
          ELSE IF Len(headerParts) # 2 \/ headerParts[1] # Bearer
            THEN [kind |-> "invalid", token |-> << >>]
            ELSE IF ~ValidateTokenPlaintext(headerParts[2])
              THEN [kind |-> "invalid", token |-> << >>]
              ELSE [kind |-> "token", token |-> headerParts[2]]

\* lines 168-204: the Authorization header h of the request is read; no
\* header is the anonymous user, a bad one is answered 401
ReadAuthorization(r, h) ==
    /\ pc[r] = "authHeader"
    /\ LET seen == [au[r] EXCEPT !.header = h, !.read = TRUE]
           parsed == ParseAuthorization(h)
       IN  CASE parsed.kind = "anonymous" ->
                  /\ au' = [au EXCEPT ![r] = contextSetUser(seen, AnonymousUser)]
                  /\ pc' = [pc EXCEPT ![r] = "authNext"]
                  /\ UNCHANGED << rq, rs >>
             [] parsed.kind = "invalid" ->
                  /\ au' = [au EXCEPT ![r] =
                              invalidAuthenticationTokenResponse(seen)]
                  /\ Finish(r, StatusUnauthorized)
             [] parsed.kind = "token" ->
                  /\ au' = [au EXCEPT ![r] =
                              [seen EXCEPT !.token = parsed.token]]
                  /\ pc' = [pc EXCEPT ![r] = "getForToken"]
                  /\ UNCHANGED << rq, rs >>
    /\ UNCHANGED << config, dataVars, serveVars, clockVars, mu, clients, sweepVars, histVars >>

\* a lookup that asks for tokens of the activation scope
LookupUserActivation(r, dbError) ==
    /\ pc[r] = "getForToken"
    /\ LET called == [au[r] EXCEPT !.lookups = @ + 1]
           found == GetForToken(ScopeActivation, au[r].token, now)
       IN  IF dbError
             THEN /\ au' = [au EXCEPT ![r] =
                              serverErrorResponse(
                                  [called EXCEPT !.err = "other"])]
                  /\ Finish(r, StatusInternalServerError)
             ELSE IF found = {}
               THEN /\ au' = [au EXCEPT ![r] =
                                invalidAuthenticationTokenResponse(
                                    [called EXCEPT !.err = "ErrRecordNotFound"])]
                    /\ Finish(r, StatusUnauthorized)
               ELSE /\ \E user \in found :
                          au' = [au EXCEPT ![r] = contextSetUser(called, user)]
                    /\ pc' = [pc EXCEPT ![r] = "authNext"]
                    /\ UNCHANGED << rq, rs >>
    /\ UNCHANGED << config, dataVars, serveVars, clockVars, mu, clients, sweepVars, histVars >>

\* a lookup that answers every error with the invalid-token response
LookupUserAll401(r, dbError) ==
    /\ pc[r] = "getForToken"
    /\ LET called == [au[r] EXCEPT !.lookups = @ + 1]
           found == GetForToken(ScopeAuthentication, au[r].token, now)
       IN  IF dbError
             THEN /\ au' = [au EXCEPT ![r] =
                              invalidAuthenticationTokenResponse(
                                  [called EXCEPT !.err = "other"])]
                  /\ Finish(r, StatusUnauthorized)
             ELSE IF found = {}
               THEN /\ au' = [au EXCEPT ![r] =
                                invalidAuthenticationTokenResponse(
                                    [called EXCEPT !.err = "ErrRecordNotFound"])]
                    /\ Finish(r, StatusUnauthorized)
               ELSE /\ \E user \in found :
                          au' = [au EXCEPT ![r] = contextSetUser(called, user)]
                    /\ pc' = [pc EXCEPT ![r] = "authNext"]
                    /\ UNCHANGED << rq, rs >>
    /\ UNCHANGED << config, dataVars, serveVars, clockVars, mu, clients, sweepVars, histVars >>

\* a lookup that answers an unknown token 401 and does not return
LookupUserNoReturn(r, dbError) ==
    /\ pc[r] = "getForToken"
    /\ LET called == [au[r] EXCEPT !.lookups = @ + 1]
           found == GetForToken(ScopeAuthentication, au[r].token, now)
       IN  IF dbError
             THEN /\ au' = [au EXCEPT ![r] =
                              serverErrorResponse(
                                  [called EXCEPT !.err = "other"])]
                  /\ Finish(r, StatusInternalServerError)
             ELSE IF found = {}
               THEN /\ au' = [au EXCEPT ![r] =
                                invalidAuthenticationTokenResponse(
                                    [called EXCEPT !.err = "ErrRecordNotFound"])]
                    /\ rs' = [rs EXCEPT ![r].status = StatusUnauthorized]
                    /\ pc' = [pc EXCEPT ![r] = "authNext"]
                    /\ UNCHANGED rq
               ELSE /\ \E user \in found :
                          au' = [au EXCEPT ![r] = contextSetUser(called, user)]
                    /\ pc' = [pc EXCEPT ![r] = "authNext"]
                    /\ UNCHANGED << rq, rs >>
    /\ UNCHANGED << config, dataVars, serveVars, clockVars, mu, clients, sweepVars, histVars >>

\* lines 210-223: app.models.Users.GetForToken(data.ScopeAuthentication,
\* token); the query fails (a timeout, a lost connection) when dbError;
\* ErrRecordNotFound is answered 401, any other error 500
LookupUser(r, dbError) ==
    /\ pc[r] = "getForToken"
    /\ LET called == [au[r] EXCEPT !.lookups = @ + 1]
           found == GetForToken(ScopeAuthentication, au[r].token, now)
       IN  IF dbError
             THEN /\ au' = [au EXCEPT ![r] =
                              serverErrorResponse(
                                  [called EXCEPT !.err = "other"])]
                  /\ Finish(r, StatusInternalServerError)
             ELSE IF found = {}
               THEN /\ au' = [au EXCEPT ![r] =
                                invalidAuthenticationTokenResponse(
                                    [called EXCEPT !.err = "ErrRecordNotFound"])]
                    /\ Finish(r, StatusUnauthorized)
               ELSE /\ \E user \in found :
                          au' = [au EXCEPT ![r] = contextSetUser(called, user)]
                    /\ pc' = [pc EXCEPT ![r] = "authNext"]
                    /\ UNCHANGED << rq, rs >>
    /\ UNCHANGED << config, dataVars, serveVars, clockVars, mu, clients, sweepVars, histVars >>

\* lines 177 and 226: next.ServeHTTP(w, r); the router hands the request to
\* the handler of the route, first to the guard that wraps it
AuthServeNext(r, route) ==
    /\ pc[r] = "authNext"
    /\ au' = [au EXCEPT ![r].nextCalls = @ + 1, ![r].route = route]
    /\ pc' = [pc EXCEPT ![r] = IF route.guard = "none" THEN "handler"
                                                        ELSE "requireAuth"]
    /\ UNCHANGED << config, dataVars, serveVars, clockVars, mu, clients, rq, rs, sweepVars,
                    histVars >>

\* a chain built without authenticate: enableCORS calls the router as next,
\* and the router hands the request to the handler of the route with no
\* user in the context of the request
ServeWithoutIdentity(r, route) ==
    /\ pc[r] = "authenticate"
    /\ au' = [au EXCEPT ![r].route = route]
    /\ pc' = [pc EXCEPT ![r] = IF route.guard = "none" THEN "handler"
                                                        ELSE "requireAuth"]
    /\ UNCHANGED << config, dataVars, serveVars, clockVars, mu, clients, rq, rs, sweepVars,
                    histVars >>

(* ----------------------- requireAuthenticatedUser ---------------------- *)

\* contextGetUser: the value under userContextKey, or a panic with this
\* value when it is not a *data.User
MissingUserValue == "missing user value in request context"

\* the handler that requireAuthenticatedUser wraps on this route: the
\* route's handler, or the fn of requireActivatedUser
AfterAuthenticated(route) ==
    IF route.guard = "authenticated" THEN "handler" ELSE "requireActivated"

\* the handler that requireActivatedUser wraps on this route: the route's
\* handler, or the fn of requirePermission
AfterActivated(route) ==
    IF route.guard = "activated" THEN "handler" ELSE "requirePermission"

\* a guard that answers the anonymous user 401 and does not return
RequireAuthenticatedUserNoReturn(r) ==
    /\ pc[r] = "requireAuth"
    /\ LET user == au[r].user
           entered == [au[r] EXCEPT !.guards = @ + 1, !.wrapped = @ + 1]
       IN  IF user = NoUser
             THEN /\ au' = [au EXCEPT ![r] =
                              [entered EXCEPT !.wrapped = 0,
                                              !.panicValue = MissingUserValue]]
                  /\ pc' = [pc EXCEPT ![r] = "panic"]
                  /\ UNCHANGED rs
             ELSE /\ au' = [au EXCEPT ![r] =
                              IF IsAnonymous(user)
                                THEN authenticationRequiredResponse(entered)
                                ELSE entered]
                  /\ rs' = [rs EXCEPT ![r].status =
                              IF IsAnonymous(user) THEN StatusUnauthorized
                                                   ELSE @]
                  /\ pc' = [pc EXCEPT ![r] = AfterAuthenticated(au[r].route)]
    /\ UNCHANGED << config, dataVars, serveVars, clockVars, mu, clients, rq, sweepVars, histVars >>

\* a guard that reads a missing identity as a user and hands the request on
RequireAuthenticatedUserNilPasses(r) ==
    /\ pc[r] = "requireAuth"
    /\ LET user == au[r].user
           entered == [au[r] EXCEPT !.guards = @ + 1]
       IN  IF user # NoUser /\ IsAnonymous(user)
             THEN /\ au' = [au EXCEPT ![r] =
                              authenticationRequiredResponse(entered)]
                  /\ Finish(r, StatusUnauthorized)
             ELSE /\ au' = [au EXCEPT ![r] =
                              [entered EXCEPT !.wrapped = @ + 1]]
                  /\ pc' = [pc EXCEPT ![r] = AfterAuthenticated(au[r].route)]
                  /\ UNCHANGED << rq, rs >>
    /\ UNCHANGED << config, dataVars, serveVars, clockVars, mu, clients, sweepVars, histVars >>

\* lines 235-245: contextGetUser panics when the context holds no user; an
\* anonymous user is answered 401, any other is handed to the wrapped handler
RequireAuthenticatedUser(r) ==
    /\ pc[r] = "requireAuth"
    /\ LET user == au[r].user
           entered == [au[r] EXCEPT !.guards = @ + 1]
       IN  IF user = NoUser
             THEN /\ au' = [au EXCEPT ![r] =
                              [entered EXCEPT !.panicValue = MissingUserValue]]
                  /\ pc' = [pc EXCEPT ![r] = "panic"]
                  /\ UNCHANGED << rq, rs >>
             ELSE IF IsAnonymous(user)
               THEN /\ au' = [au EXCEPT ![r] =
                                authenticationRequiredResponse(entered)]
                    /\ Finish(r, StatusUnauthorized)
               ELSE /\ au' = [au EXCEPT ![r] =
                                [entered EXCEPT !.wrapped = @ + 1]]
                    /\ pc' = [pc EXCEPT ![r] = AfterAuthenticated(au[r].route)]
                    /\ UNCHANGED << rq, rs >>
    /\ UNCHANGED << config, dataVars, serveVars, clockVars, mu, clients, sweepVars, histVars >>

(* ------------------------- requireActivatedUser ------------------------ *)

\* a guard that answers the user who is not activated 403 and does not
\* return
RequireActivatedUserNoReturn(r) ==
    /\ pc[r] = "requireActivated"
    /\ LET user == au[r].user
           entered == [au[r] EXCEPT !.activations = @ + 1, !.inner = @ + 1]
       IN  /\ au' = [au EXCEPT ![r] =
                       IF ~user.activated
                         THEN inactiveAccountResponse(entered)
                         ELSE entered]
           /\ rs' = [rs EXCEPT ![r].status =
                       IF ~user.activated THEN StatusForbidden ELSE @]
           /\ pc' = [pc EXCEPT ![r] = AfterActivated(au[r].route)]
    /\ UNCHANGED << config, dataVars, serveVars, clockVars, mu, clients, rq, sweepVars, histVars >>

\* a guard that hands on the user who is not activated
RequireActivatedUserUnchecked(r) ==
    /\ pc[r] = "requireActivated"
    /\ au' = [au EXCEPT ![r].activations = @ + 1, ![r].inner = @ + 1]
    /\ pc' = [pc EXCEPT ![r] = AfterActivated(au[r].route)]
    /\ UNCHANGED << config, dataVars, serveVars, clockVars, mu, clients, rq, rs, sweepVars,
                    histVars >>

\* the fn of requireActivatedUser, which requireAuthenticatedUser wraps
\* (return app.requireAuthenticatedUser(fn)): contextGetUser, then a user
\* who is not activated is answered 403, any other is handed to the wrapped
\* handler
RequireActivatedUser(r) ==
    /\ pc[r] = "requireActivated"
    /\ LET user == au[r].user
           entered == [au[r] EXCEPT !.activations = @ + 1]
       IN  IF user = NoUser
             THEN /\ au' = [au EXCEPT ![r] =
                              [entered EXCEPT !.panicValue = MissingUserValue]]
                  /\ pc' = [pc EXCEPT ![r] = "panic"]
                  /\ UNCHANGED << rq, rs >>
             ELSE IF ~user.activated
               THEN /\ au' = [au EXCEPT ![r] =
                                inactiveAccountResponse(entered)]
                    /\ Finish(r, StatusForbidden)
               ELSE /\ au' = [au EXCEPT ![r] =
                                [entered EXCEPT !.inner = @ + 1]]
                    /\ pc' = [pc EXCEPT ![r] = AfterActivated(au[r].route)]
                    /\ UNCHANGED << rq, rs >>
    /\ UNCHANGED << config, dataVars, serveVars, clockVars, mu, clients, sweepVars, histVars >>

(* --------------------------- requirePermission ------------------------- *)

\* a guard that answers a failed lookup as a missing permission
RequirePermissionErrorDenies(r, dbError) ==
    /\ pc[r] = "requirePermission"
    /\ LET user == au[r].user
           looked == [au[r] EXCEPT !.permLookups = @ + 1]
       IN  IF dbError \/ ~Include(GetAllForUser(user.id), au[r].route.code)
             THEN /\ au' = [au EXCEPT ![r] =
                              notPermittedResponse(
                                  [looked EXCEPT !.permErr =
                                      IF dbError THEN "other" ELSE "nil"])]
                  /\ Finish(r, StatusForbidden)
             ELSE /\ au' = [au EXCEPT ![r] =
                              [looked EXCEPT !.permitted = @ + 1]]
                  /\ pc' = [pc EXCEPT ![r] = "handler"]
                  /\ UNCHANGED << rq, rs >>
    /\ UNCHANGED << config, dataVars, serveVars, clockVars, mu, clients, sweepVars, histVars >>

\* the fn of requirePermission(code, next), which requireActivatedUser wraps
\* (return app.requireActivatedUser(fn)): contextGetUser, then
\* Permissions.GetAllForUser(user.ID); an error of the lookup is answered
\* 500, a slice without the code 403, any other slice is handed to next
RequirePermission(r, dbError) ==
    /\ pc[r] = "requirePermission"
    /\ LET user == au[r].user
       IN  IF user = NoUser
             THEN /\ au' = [au EXCEPT ![r].panicValue = MissingUserValue]
                  /\ pc' = [pc EXCEPT ![r] = "panic"]
                  /\ UNCHANGED << rq, rs >>
             ELSE LET looked == [au[r] EXCEPT !.permLookups = @ + 1,
                                                  !.store = "db"]
                  IN  IF dbError
                        THEN /\ au' = [au EXCEPT ![r] =
                                         serverErrorResponse(
                                             [looked EXCEPT !.permErr = "other"])]
                             /\ Finish(r, StatusInternalServerError)
                        ELSE IF ~Include(GetAllForUser(user.id),
                                         au[r].route.code)
                          THEN /\ au' = [au EXCEPT ![r] =
                                           notPermittedResponse(looked)]
                               /\ Finish(r, StatusForbidden)
                          ELSE /\ au' = [au EXCEPT ![r] =
                                           [looked EXCEPT !.permitted = @ + 1]]
                               /\ pc' = [pc EXCEPT ![r] = "handler"]
                               /\ UNCHANGED << rq, rs >>
    /\ UNCHANGED << config, dataVars, serveVars, clockVars, mu, clients, sweepVars, histVars >>

\* the fn of requirePermission(code, next) when app.models.Permissions is
\* the MockPermissionModel of the tests
RequirePermissionMock(r) ==
    /\ pc[r] = "requirePermission"
    /\ LET user == au[r].user
       IN  IF user = NoUser
             THEN /\ au' = [au EXCEPT ![r].panicValue = MissingUserValue]
                  /\ pc' = [pc EXCEPT ![r] = "panic"]
                  /\ UNCHANGED << rq, rs >>
             ELSE LET got == MockGetAllForUser(user.id)
                      looked == [au[r] EXCEPT !.permLookups = @ + 1,
                                              !.store = "mock",
                                              !.permErr = got.err]
                  IN  IF got.err # "nil"
                        THEN /\ au' = [au EXCEPT ![r] =
                                         serverErrorResponse(looked)]
                             /\ Finish(r, StatusInternalServerError)
                        ELSE IF ~Include(got.permissions, au[r].route.code)
                          THEN /\ au' = [au EXCEPT ![r] =
                                           notPermittedResponse(looked)]
                               /\ Finish(r, StatusForbidden)
                          ELSE /\ au' = [au EXCEPT ![r] =
                                           [looked EXCEPT !.permitted = @ + 1]]
                               /\ pc' = [pc EXCEPT ![r] = "handler"]
                               /\ UNCHANGED << rq, rs >>
    /\ UNCHANGED << config, dataVars, serveVars, clockVars, mu, clients, sweepVars, histVars >>

(* ------------------------------ handlers ------------------------------- *)

\* the route's handler writes its response and returns
Handler(r) ==
    /\ pc[r] = "handler"
    /\ au' = [au EXCEPT ![r].handled = @ + 1, ![r].writes = @ + 1]
    /\ Finish(r, StatusOK)
    /\ UNCHANGED << config, dataVars, serveVars, clockVars, mu, clients, sweepVars, histVars >>

\* values a handler panics with
HandlerPanicValues == { "runtime error: invalid memory address or nil pointer dereference" }

\* the route's handler panics, before it has written anything or after its
\* writeJSON has sent the header and the body of its response
HandlerPanics(r, value, started) ==
    /\ pc[r] = "handler"
    /\ au' = [au EXCEPT ![r].handled = @ + 1, ![r].panicValue = value,
                        ![r].startedAtPanic = started,
                        ![r].writes = IF started THEN @ + 1 ELSE @]
    /\ rs' = [rs EXCEPT ![r].status = IF started THEN StatusOK ELSE @]
    /\ pc' = [pc EXCEPT ![r] = "panic"]
    /\ UNCHANGED << config, dataVars, serveVars, clockVars, mu, clients, rq, sweepVars, histVars >>

(* ----------------------------- recoverPanic ---------------------------- *)

\* a recovery that sends the panic value as the message
RecoverPanicLeaks(r) ==
    /\ pc[r] = "panic"
    /\ au' = [au EXCEPT ![r] = errorResponse(@, @.panicValue)]
    /\ Finish(r, StatusInternalServerError)
    /\ UNCHANGED << config, dataVars, serveVars, clockVars, mu, clients, sweepVars, histVars >>

\* lines 21-37, the deferred function of recoverPanic once the stack of the
\* request unwinds: recover() returns the panic value, the Connection:
\* close header is set and serverErrorResponse logs the value and answers
\* 500 with the generic message. Once the header of a response is sent the
\* header map and WriteHeader change nothing any more: the status stays,
\* Connection: close is not sent, and the error body follows the body that
\* was written
RecoverPanic(r) ==
    /\ pc[r] = "panic"
    /\ au' = [au EXCEPT ![r] = serverErrorResponse(@)]
    /\ IF rs[r].status = NoStatus
         THEN Finish(r, StatusInternalServerError)
         ELSE /\ pc' = [pc EXCEPT ![r] = "done"]
              /\ rq' = [rq EXCEPT ![r] = NoLocals]
              /\ UNCHANGED rs
    /\ UNCHANGED << config, dataVars, serveVars, clockVars, mu, clients, sweepVars, histVars >>

(* --------------------------- showMovieHandler -------------------------- *)

StatusNotFound == 404

\* notFoundResponse: the message of errors.go
notFoundResponse(a) ==
    errorResponse(a, "the requested resource could not be found")

\* the decimal digits and the value of one
Digits == << "0", "1", "2", "3", "4", "5", "6", "7", "8", "9" >>
DigitValue(c) == (CHOOSE i \in 1..Len(Digits) : Digits[i] = c) - 1

\* the number a sequence of digits denotes
RECURSIVE DigitsValue(_)
DigitsValue(ds) ==
    IF ds = << >> THEN 0
    ELSE 10 * DigitsValue(SubSeq(ds, 1, Len(ds) - 1)) + DigitValue(ds[Len(ds)])

\* a 64-bit integer has at most 19 decimal digits
Int64Digits == 19

\* strconv.ParseInt(s, 10, 64): an optional sign, then one or more decimal
\* digits and nothing else, or a syntax error; a number that does not fit
\* 64 bits is a range error (decided here by the number of digits, which is
\* exact for the strings of IDParams). The value that comes with an error is
\* left out: readIDParam does not use it
ParseInt(s) ==
    LET signed == s # << >> /\ s[1] \in {"+", "-"}
        ds == IF signed THEN Tail(s) ELSE s
    IN  IF ds = << >> \/ \E i \in 1..Len(ds) : \A j \in 1..Len(Digits) :
                                                ds[i] # Digits[j]
          THEN [n |-> 0, err |-> "syntax"]
        ELSE IF Len(ds) > Int64Digits
          THEN [n |-> 0, err |-> "range"]
        ELSE [n |-> IF s[1] = "-" THEN 0 - DigitsValue(ds) ELSE DigitsValue(ds),
              err |-> "nil"]

\* readIDParam: the id of the route, or 0 and an error when the parameter is
\* not an integer or is below 1
readIDParam(s) ==
    LET parsed == ParseInt(s)
    IN  IF parsed.err # "nil" \/ parsed.n < 1
          THEN [id |-> 0, err |-> "invalid id parameter"]
          ELSE [id |-> parsed.n, err |-> "nil"]

\* the values of the id parameter of GET /v1/movies/:id
IDParams ==
    { << "1" >>, << "2" >>, << "7" >>, << "0" >>, << "-", "1" >>,
      << "+", "1" >>, << "0", "1" >>, << "1", ".", "2", "3" >>,
      << "a", "v", "e", "n", "g", "e", "r", "s" >>, << "1", "e", "3" >>,
      Repeat("9", Int64Digits + 1) }

\* the movie of the mock Movie Store
mockMovie ==
    [ID |-> 1, Title |-> "Casablanca", Year |-> 1960, Runtime |-> 120,
     Genres |-> << "drama", "documentary" >>, Version |-> 1]

\* MockMovieModel.Get
MockMovieGet(id) ==
    IF id = 1 THEN [movie |-> mockMovie, err |-> "nil"]
    ELSE [movie |-> << >>, err |-> "ErrRecordNotFound"]

\* the movie showMovieHandler answers with: a literal with the id of the
\* request
PlaceholderMovie(id) ==
    [ID |-> id, Title |-> "Casablanca", Year |-> 0, Runtime |-> 102,
     Genres |-> << "drama", "romance", "war" >>, Version |-> 1]

\* showMovieHandler behind requirePermission("movies:read"): 404 when
\* readIDParam fails, otherwise 200 with a movie
ShowMovieHandler(r, param) ==
    /\ pc[r] = "handler"
    /\ au[r].route = [guard |-> "permission", code |-> MoviesRead]
    /\ LET read == readIDParam(param)
           a == [au[r] EXCEPT !.handled = @ + 1, !.param = param]
       IN  IF read.err # "nil" \/ read.id < 1
             THEN /\ au' = [au EXCEPT ![r] = notFoundResponse(a)]
                  /\ Finish(r, StatusNotFound)
             ELSE /\ au' = [au EXCEPT ![r] =
                                [a EXCEPT !.writes = @ + 1,
                                          !.movie = PlaceholderMovie(read.id)]]
                  /\ Finish(r, StatusOK)
    /\ UNCHANGED << config, dataVars, serveVars, clockVars, mu, clients, sweepVars,
                    histVars >>

(* ------------------------------ MovieModel ----------------------------- *)

\* the ids callers ask for, and the titles they write
MovieIDs == { 1, 2 }
Titles == { "Casablanca", "Casablanca (1942)" }

\* MovieModel.Get(id): a copy of the row, or ErrRecordNotFound. The caller
\* keeps the copy to change it and hand it to Update
MovieGet(r, id) ==
    /\ r \in env.workers
    /\ pc[r] \in {"idle", "done"}
    /\ \A i \in DOMAIN movies : movies[i].Version < MaxVersion
    /\ IF id >= 1 /\ id \in DOMAIN movies
         THEN /\ au' = [au EXCEPT ![r] =
                          [NoAuth EXCEPT !.movie = movies[id],
                                         !.readVersion = movies[id].Version]]
              /\ pc' = [pc EXCEPT ![r] = "update"]
         ELSE /\ au' = [au EXCEPT ![r] =
                          [NoAuth EXCEPT !.updErr = "ErrRecordNotFound"]]
              /\ pc' = [pc EXCEPT ![r] = "done"]
    /\ UNCHANGED << config, dataVars, serveVars, clockVars, mu, clients, rq, rs,
                    sweepVars, histVars >>

\* an UPDATE without the version in its WHERE clause
MovieUpdateLastWins(r, title, dbError) ==
    /\ pc[r] = "update"
    /\ pc' = [pc EXCEPT ![r] = "done"]
    /\ LET movie == [au[r].movie EXCEPT !.Title = title]
           id == movie.ID
       IN  IF dbError
             THEN /\ au' = [au EXCEPT ![r].movie = movie, ![r].updErr = "other"]
                  /\ UNCHANGED << movies, updateLog >>
           ELSE IF id \in DOMAIN movies
             THEN /\ movies' = [movies EXCEPT ![id] =
                                  [@ EXCEPT !.Title = movie.Title,
                                            !.Version = @ + 1]]
                  /\ au' = [au EXCEPT ![r].movie =
                                          [movie EXCEPT !.Version =
                                              movies[id].Version + 1],
                                      ![r].updErr = "nil"]
                  /\ updateLog' = Append(updateLog,
                                         [by |-> r, id |-> id,
                                          supplied |-> movie.Version,
                                          from |-> movies[id].Version,
                                          to |-> movies[id].Version + 1])
             ELSE /\ au' = [au EXCEPT ![r].movie = movie,
                                      ![r].updErr = "ErrEditConflict"]
                  /\ UNCHANGED << movies, updateLog >>
    /\ UNCHANGED << config, serveVars, clockVars, mu, clients, rq, rs,
                    sweepVars, histVars >>

\* MovieModel.Update(movie) with the fields the caller has set: one UPDATE
\* ... WHERE id = $5 AND version = $6 RETURNING version. A row that matches
\* gets the fields and version + 1, and Scan stores the new version in the
\* movie of the caller; no row is sql.ErrNoRows and becomes ErrEditConflict;
\* any other error of the query is returned as it is
MovieUpdate(r, title, dbError) ==
    /\ pc[r] = "update"
    /\ pc' = [pc EXCEPT ![r] = "done"]
    /\ LET movie == [au[r].movie EXCEPT !.Title = title]
           id == movie.ID
       IN  IF dbError
             THEN /\ au' = [au EXCEPT ![r].movie = movie, ![r].updErr = "other"]
                  /\ UNCHANGED << movies, updateLog >>
           ELSE IF id \in DOMAIN movies /\ movies[id].Version = movie.Version
             THEN /\ movies' = [movies EXCEPT ![id] =
                                  [@ EXCEPT !.Title = movie.Title,
                                            !.Version = @ + 1]]
                  /\ au' = [au EXCEPT ![r].movie =
                                          [movie EXCEPT !.Version =
                                              movies[id].Version + 1],
                                      ![r].updErr = "nil"]
                  /\ updateLog' = Append(updateLog,
                                         [by |-> r, id |-> id,
                                          supplied |-> movie.Version,
                                          from |-> movies[id].Version,
                                          to |-> movies[id].Version + 1])
             ELSE /\ au' = [au EXCEPT ![r].movie = movie,
                                      ![r].updErr = "ErrEditConflict"]
                  /\ UNCHANGED << movies, updateLog >>
    /\ UNCHANGED << config, serveVars, clockVars, mu, clients, rq, rs,
                    sweepVars, histVars >>

(* ------------------------- registerUserHandler ------------------------- *)

\* what the steps of registerUserHandler come to: readJSON fails, the hash of
\* the password fails, the validation fails, the insert finds the email or
\* fails otherwise, or the user is inserted
RegisterOutcomes ==
    { "badRequest", "hashError", "invalid", "duplicate", "insertError",
      "inserted" }

\* the status registerUserHandler answers an outcome with
RegisterStatus(outcome) ==
    CASE outcome = "badRequest" -> StatusBadRequest
      [] outcome \in {"hashError", "insertError"} -> StatusInternalServerError
      [] outcome \in {"invalid", "duplicate"} -> StatusUnprocessableEntity
      [] outcome = "inserted" -> StatusAccepted

\* registerUserHandler on the unguarded route POST /v1/users, up to the
\* assignment of line 95: every failure is answered and returns; after the
\* insert the go statement starts the goroutine that sends the welcome email
\* and writeJSON sends 202 with the user and leaves nil in err
RegisterUserHandler(r, outcome) ==
    /\ pc[r] = "handler"
    /\ au[r].route.guard = "none"
    /\ outcome = "inserted" => tasks < MaxTasks
    /\ tasks' = IF outcome = "inserted" THEN tasks + 1 ELSE tasks
    /\ IF outcome = "inserted"
         THEN /\ au' = [au EXCEPT ![r].handled = @ + 1, ![r].writes = @ + 1,
                                  ![r].mail = "spawned", ![r].regErr = "nil"]
              /\ pc' = [pc EXCEPT ![r] = "registered"]
              /\ rs' = [rs EXCEPT ![r].status = StatusAccepted]
              /\ UNCHANGED rq
         ELSE /\ au' = [au EXCEPT ![r].handled = @ + 1, ![r].writes = @ + 1]
              /\ Finish(r, RegisterStatus(outcome))
    /\ UNCHANGED << config, dataVars, clockVars, mu, clients, sweepVars, histVars,
                    main, sig, listening, wg, exitCode, logged >>

\* lines 96-98 of registerUserHandler: the handler reads err and, when it is
\* not nil, calls serverErrorResponse; the header of the response is sent by
\* then, so the status stays and the error body follows the user
RegisterUserReturn(r) ==
    /\ pc[r] = "registered"
    /\ au' = [au EXCEPT ![r] = IF @.regErr = "nil" THEN @
                               ELSE serverErrorResponse(@)]
    /\ pc' = [pc EXCEPT ![r] = "done"]
    /\ rq' = [rq EXCEPT ![r] = NoLocals]
    /\ UNCHANGED << config, dataVars, serveVars, clockVars, mu, clients, rs, sweepVars,
                    histVars >>

\* how mailer.Send ends in the goroutine of registerUserHandler
SendOutcomes == { "sent", "error", "panic" }

\* the value the goroutine assigns to the err of the handler at line 83: a
\* panic in Send leaves the variable alone
SendResult(outcome, err) ==
    CASE outcome = "sent" -> "nil"
      [] outcome = "error" -> "mail"
      [] outcome = "panic" -> err

\* what the goroutine logs: the error of Send at line 88, the recovered
\* panic at line 77
SendLogged(outcome) == IF outcome = "sent" THEN {} ELSE {outcome}

\* the requests whose handler is between its lines 95 and 96 while the
\* goroutine it started has not assigned to err
Racing == { r \in Workers : pc[r] = "registered" /\ au[r].mail = "spawned" }

\* a goroutine whose panic is not recovered: the runtime ends the process
\* with status 2
SendMailUnrecovered(outcome) ==
    /\ tasks > Cardinality(Racing)
    /\ tasks' = tasks - 1
    /\ logged' = logged \cup SendLogged(outcome)
    /\ exitCode' = IF outcome = "panic" THEN 2 ELSE exitCode
    /\ UNCHANGED << config, dataVars, authVars, clockVars, mu, clients, reqVars,
                    sweepVars, histVars, main, sig, listening, wg >>

\* lines 73-90, the goroutine of a registerUserHandler that has returned:
\* mailer.Send returns, with or without an error, or it panics and the
\* deferred function recovers and logs the panic; the goroutine ends
SendMail(outcome) ==
    /\ tasks > Cardinality(Racing)
    /\ tasks' = tasks - 1
    /\ logged' = logged \cup SendLogged(outcome)
    /\ UNCHANGED << config, dataVars, authVars, clockVars, mu, clients, reqVars,
                    sweepVars, histVars, main, sig, listening, wg, exitCode >>

\* lines 73-90, the goroutine while its registerUserHandler is between the
\* assignment of line 95 and the test of line 96: the assignment of line 83
\* writes the variable err of the handler, which the closure captured
SendMailRacing(r, outcome) ==
    /\ r \in Racing
    /\ tasks' = tasks - 1
    /\ logged' = logged \cup SendLogged(outcome)
    /\ au' = [au EXCEPT ![r].mail = "ended",
                        ![r].regErr = SendResult(outcome, @)]
    /\ UNCHANGED << config, dataVars, clockVars, mu, clients, reqVars, sweepVars,
                    histVars, main, sig, listening, wg, exitCode >>

(* -------------------------------- serve -------------------------------- *)

\* requests whose handler chain has not returned
Active == { r \in Workers : pc[r] \notin {"idle", "done"} }

\* the process runs
Running == exitCode = NoExit

\* srv.ListenAndServe() is called: after Shutdown it returns ErrServerClosed
\* at once, otherwise it listens, or fails and serve returns its error
ListenAndServe(ok) ==
    /\ main.pc = "start"
    /\ IF sig.pc # "quit"
         THEN /\ main' = [main EXCEPT !.pc = "recv", !.las = "ErrServerClosed"]
              /\ UNCHANGED listening
         ELSE IF ok
           THEN main' = [main EXCEPT !.pc = "listen"] /\ listening' = TRUE
           ELSE /\ main' = [pc |-> "returned", err |-> "listen",
                            las |-> "listen"]
                /\ UNCHANGED listening
    /\ UNCHANGED << config, dataVars, authVars, clockVars, mu, clients, reqVars,
                    sweepVars, histVars, sig, wg, tasks, exitCode,
                    logged >>

\* s := <-quit, then srv.Shutdown(ctx) with the 5-second context starts: the
\* listeners are closed, with or without an error
Signal(lnerr) ==
    /\ sig.pc = "quit"
    /\ sig' = [sig EXCEPT !.pc = "shutdown",
                          !.deadline = now + DrainWindow,
                          !.lnerr = (lnerr /\ listening),
                          !.inFlight = Active]
    /\ listening' = FALSE
    /\ UNCHANGED << config, dataVars, authVars, clockVars, mu, clients, reqVars,
                    sweepVars, histVars, main, wg, tasks, exitCode,
                    logged >>

\* a serve that returns ErrServerClosed as its error
ErrServerClosedFails ==
    /\ main.pc = "listen"
    /\ sig.pc # "quit"
    /\ main' = [main EXCEPT !.pc = "returned", !.err = "ErrServerClosed",
                            !.las = "ErrServerClosed"]
    /\ UNCHANGED << config, dataVars, authVars, clockVars, mu, clients, reqVars,
                    sweepVars, histVars, sig, listening, wg, tasks, exitCode,
                    logged >>

\* srv.ListenAndServe() returns ErrServerClosed once Shutdown was called
ErrServerClosed ==
    /\ main.pc = "listen"
    /\ sig.pc # "quit"
    /\ main' = [main EXCEPT !.pc = "recv", !.las = "ErrServerClosed"]
    /\ UNCHANGED << config, dataVars, authVars, clockVars, mu, clients, reqVars,
                    sweepVars, histVars, sig, listening, wg, tasks, exitCode,
                    logged >>

\* a Shutdown that does not wait for the requests in flight
ShutdownAtOnce ==
    /\ sig.pc = "shutdown"
    /\ sig' = [sig EXCEPT !.pc = IF sig.lnerr THEN "sendErr" ELSE "wait",
                          !.err = IF sig.lnerr THEN "close" ELSE "nil",
                          !.result = IF sig.lnerr THEN "close" ELSE "nil"]
    /\ UNCHANGED << config, dataVars, authVars, clockVars, mu, clients, reqVars,
                    sweepVars, histVars, main, listening, wg, tasks, exitCode,
                    logged >>

\* a signal goroutine that sends nil without the wait on app.wg
ShutdownSkipsWait ==
    /\ sig.pc = "shutdown"
    /\ Active # {} => now >= sig.deadline
    /\ LET err == IF Active # {} THEN "deadline"
                  ELSE IF sig.lnerr THEN "close" ELSE "nil"
       IN  sig' = [sig EXCEPT !.pc = IF err = "nil" THEN "sendNil"
                                                   ELSE "sendErr",
                              !.err = err, !.result = err]
    /\ UNCHANGED << config, dataVars, authVars, clockVars, mu, clients, reqVars,
                    sweepVars, histVars, main, listening, wg, tasks, exitCode,
                    logged >>

\* srv.Shutdown(ctx) returns: the error of closing the listeners once no
\* request is in flight, or the error of the context when its deadline has
\* passed with a request still in flight
Shutdown ==
    /\ sig.pc = "shutdown"
    /\ Active # {} => now >= sig.deadline
    /\ LET err == IF Active # {} THEN "deadline"
                  ELSE IF sig.lnerr THEN "close" ELSE "nil"
       IN  sig' = [sig EXCEPT !.pc = IF err = "nil" THEN "wait" ELSE "sendErr",
                              !.err = err, !.result = err]
    /\ UNCHANGED << config, dataVars, authVars, clockVars, mu, clients, reqVars,
                    sweepVars, histVars, main, listening, wg, tasks, exitCode,
                    logged >>

\* shutdownError <- err in the signal goroutine meets err = <-shutdownError in
\* serve: the channel has no buffer. After the send of an error the signal
\* goroutine goes on to app.wg.Wait(); serve returns the error it received
ShutdownError ==
    /\ sig.pc \in {"sendErr", "sendNil"}
    /\ main.pc = "recv"
    /\ main' = [main EXCEPT !.pc = "returned", !.err = sig.err]
    /\ sig' = [sig EXCEPT !.pc = IF sig.pc = "sendErr" THEN "wait" ELSE "end",
                          !.err = "nil", !.sends = @ + 1]
    /\ UNCHANGED << config, dataVars, authVars, clockVars, mu, clients, reqVars,
                    sweepVars, histVars, listening, wg, tasks, exitCode,
                    logged >>

\* app.wg.Wait() returns when the counter is zero
WgWait ==
    /\ sig.pc = "wait"
    /\ wg = 0
    /\ sig' = [sig EXCEPT !.pc = "sendNil", !.err = "nil", !.waits = @ + 1]
    /\ UNCHANGED << config, dataVars, authVars, clockVars, mu, clients, reqVars,
                    sweepVars, histVars, main, listening, wg, tasks, exitCode,
                    logged >>

\* main after serve has returned: logger.PrintFatal and exit status 1 for an
\* error, the end of main and exit status 0 otherwise
Exit ==
    /\ main.pc = "returned"
    /\ exitCode' = IF main.err = "nil" THEN 0 ELSE 1
    /\ UNCHANGED << config, dataVars, authVars, clockVars, mu, clients, reqVars,
                    sweepVars, histVars, main, sig, listening, wg, tasks,
                    logged >>

(* --------------------------- specification ----------------------------- *)

Next ==
    \/ \E d \in Steps : AdvanceTime(d)
    \/ \E r \in Workers, a \in RemoteAddrs : StartRequest(r, a)
    \/ \E r \in Workers : EnterRateLimit(r)
    \/ \E r \in Workers : Lock(r)
    \/ \E r \in Workers : Lookup(r)
    \/ \E r \in Workers : Create(r)
    \/ \E r \in Workers : UpdateLastSeen(r)
    \/ \E r \in Workers : Allow(r)
    \/ \E r \in Workers : UnlockDeny(r)
    \/ \E r \in Workers : RateLimitExceeded(r)
    \/ \E r \in Workers : UnlockAllow(r)
    \/ \E r \in Workers : ServeNext(r)
    \/ \E r \in Workers : Return(r)
    \/ SweepWake
    \/ SweepLock
    \/ \E ip \in IPs : SweepStep(ip)
    \/ SweepUnlock

Spec == Init /\ [][Next]_vars

\* the steps of the goroutine of request r other than mu.Lock()
RequestStep(r) ==
    \/ EnterRateLimit(r)
    \/ Lookup(r)
    \/ Create(r)
    \/ UpdateLastSeen(r)
    \/ Allow(r)
    \/ UnlockDeny(r)
    \/ RateLimitExceeded(r)
    \/ UnlockAllow(r)
    \/ ServeNext(r)
    \/ Return(r)

\* the steps of the sweep goroutine after mu.Lock()
SweepPass == (\E ip \in IPs : SweepStep(ip)) \/ SweepUnlock

\* the scheduler runs every goroutine that can run, and sync.Mutex hands the
\* mutex to a goroutine that keeps waiting for it (starvation mode), so a
\* Lock that can succeed again and again does succeed
FairLimiter ==
    /\ \A r \in Workers : WF_vars(RequestStep(r)) /\ SF_vars(Lock(r))
    /\ SF_vars(SweepLock)
    /\ WF_vars(SweepPass)

SpecLive == InitLive /\ [][Next]_vars /\ FairLimiter

SpecSweep == InitSweep /\ [][Next]_vars

SpecEvict == InitEvict /\ [][Next]_vars

SpecSeq == InitSeq /\ [][Next]_vars

SpecPair == InitPair /\ [][Next]_vars

\* the chain from the accepted request to the route's handler, the limiter
\* switched off
NextAuth ==
    \/ \E d \in Steps : AdvanceTime(d)
    \/ \E r \in Workers, a \in RemoteAddrs : StartRequest(r, a)
    \/ \E r \in Workers : EnterRateLimit(r)
    \/ \E r \in Workers : ServeNext(r)
    \/ \E r \in Workers, origin \in env.origins, preflight \in BOOLEAN :
            EnableCORS(r, origin, preflight)
    \/ \E r \in Workers : AddVary(r)
    \/ \E r \in Workers, h \in RequestHeaders : ReadAuthorization(r, h)
    \/ \E r \in Workers, dbError \in BOOLEAN : LookupUser(r, dbError)
    \/ \E r \in Workers, route \in env.routes : AuthServeNext(r, route)
    \/ \E r \in Workers : RequireAuthenticatedUser(r)
    \/ \E r \in Workers : Handler(r)

NextGuard ==
    \/ NextAuth
    \/ \E r \in Workers : RequireActivatedUser(r)
    \/ \E r \in Workers, dbError \in BOOLEAN : RequirePermission(r, dbError)
    \/ \E r \in Workers, value \in HandlerPanicValues, started \in BOOLEAN :
            HandlerPanics(r, value, started)
    \/ \E r \in Workers : RecoverPanic(r)

\* callers that get a movie, change it and update it, side by side
NextUpdate ==
    \/ \E r \in Workers, id \in MovieIDs : MovieGet(r, id)
    \/ \E r \in Workers, title \in Titles, dbError \in BOOLEAN :
            MovieUpdate(r, title, dbError)

SpecUpdate == InitUpdate /\ [][NextUpdate]_vars

\* the guarded routes with either Permission Store behind requirePermission
NextStores ==
    \/ NextGuard
    \/ \E r \in Workers : RequirePermissionMock(r)

SpecStores == InitGuard /\ [][NextStores]_vars

\* the guarded routes with showMovieHandler behind movies:read
NextMovies ==
    \/ NextGuard
    \/ \E r \in Workers, param \in IDParams : ShowMovieHandler(r, param)

SpecMovies == InitGuard /\ [][NextMovies]_vars

NextPanic ==
    \/ \E r \in Workers, a \in RemoteAddrs : StartRequest(r, a)
    \/ \E r \in Workers : EnterRateLimit(r)
    \/ \E r \in Workers : ServeNext(r)
    \/ \E r \in Workers, origin \in env.origins, preflight \in BOOLEAN :
            EnableCORS(r, origin, preflight)
    \/ \E r \in Workers : AddVary(r)
    \/ \E r \in Workers, h \in RequestHeaders : ReadAuthorization(r, h)
    \/ \E r \in Workers, dbError \in BOOLEAN : LookupUser(r, dbError)
    \/ \E r \in Workers, route \in env.routes : AuthServeNext(r, route)
    \/ \E r \in Workers : Handler(r)
    \/ \E r \in Workers, value \in HandlerPanicValues, started \in BOOLEAN :
            HandlerPanics(r, value, started)
    \/ \E r \in Workers : RecoverPanic(r)

SpecAuth == InitAuth /\ [][NextAuth]_vars
SpecGuard == InitGuard /\ [][NextGuard]_vars
SpecPanic == InitPanic /\ [][NextPanic]_vars

NextBare ==
    \/ \E r \in Workers, a \in RemoteAddrs : StartRequest(r, a)
    \/ \E r \in Workers : EnterRateLimit(r)
    \/ \E r \in Workers : ServeNext(r)
    \/ \E r \in Workers, origin \in env.origins, preflight \in BOOLEAN :
            EnableCORS(r, origin, preflight)
    \/ \E r \in Workers, route \in env.routes : ServeWithoutIdentity(r, route)
    \/ \E r \in Workers : RequireAuthenticatedUser(r)
    \/ \E r \in Workers : Handler(r)
    \/ \E r \in Workers : RecoverPanic(r)

SpecBare == InitBare /\ [][NextBare]_vars

\* the whole chain of one request: recoverPanic around rateLimit, enableCORS,
\* authenticate, the guards of the route and its handler
NextChain ==
    \/ \E r \in Workers, a \in RemoteAddrs : StartRequest(r, a)
    \/ \E r \in Workers : EnterRateLimit(r)
    \/ \E r \in Workers : Lock(r)
    \/ \E r \in Workers : Lookup(r)
    \/ \E r \in Workers : Create(r)
    \/ \E r \in Workers : UpdateLastSeen(r)
    \/ \E r \in Workers : Allow(r)
    \/ \E r \in Workers : UnlockDeny(r)
    \/ \E r \in Workers : RateLimitExceeded(r)
    \/ \E r \in Workers : UnlockAllow(r)
    \/ \E r \in Workers : ServeNext(r)
    \/ \E r \in Workers, origin \in env.origins, preflight \in BOOLEAN :
            EnableCORS(r, origin, preflight)
    \/ \E r \in Workers : AddVary(r)
    \/ \E r \in Workers, h \in RequestHeaders : ReadAuthorization(r, h)
    \/ \E r \in Workers, dbError \in BOOLEAN : LookupUser(r, dbError)
    \/ \E r \in Workers, route \in env.routes : AuthServeNext(r, route)
    \/ \E r \in Workers : RequireAuthenticatedUser(r)
    \/ \E r \in Workers : RequireActivatedUser(r)
    \/ \E r \in Workers, dbError \in BOOLEAN : RequirePermission(r, dbError)
    \/ \E r \in Workers : Handler(r)
    \/ \E r \in Workers, value \in HandlerPanicValues, started \in BOOLEAN :
            HandlerPanics(r, value, started)
    \/ \E r \in Workers : RecoverPanic(r)

SpecChain == InitChain /\ [][NextChain]_vars

\* the goroutines of the process while it runs: serve, the signal goroutine,
\* the requests the listener accepts and the goroutines their handlers start
NextServe ==
    \/ \E d \in Steps : Running /\ AdvanceTime(d)
    \/ \E ok \in BOOLEAN : Running /\ ListenAndServe(ok)
    \/ \E lnerr \in BOOLEAN : Running /\ Signal(lnerr)
    \/ Running /\ ErrServerClosed
    \/ Running /\ Shutdown
    \/ Running /\ ShutdownError
    \/ Running /\ WgWait
    \/ Running /\ Exit
    \/ \E r \in Workers, a \in RemoteAddrs :
            Running /\ listening /\ StartRequest(r, a)
    \/ \E r \in Workers : Running /\ EnterRateLimit(r)
    \/ \E r \in Workers : Running /\ ServeNext(r)
    \/ \E r \in Workers, origin \in env.origins, preflight \in BOOLEAN :
            Running /\ EnableCORS(r, origin, preflight)
    \/ \E r \in Workers : Running /\ AddVary(r)
    \/ \E r \in Workers, h \in RequestHeaders :
            Running /\ ReadAuthorization(r, h)
    \/ \E r \in Workers, dbError \in BOOLEAN : Running /\ LookupUser(r, dbError)
    \/ \E r \in Workers, route \in env.routes :
            Running /\ AuthServeNext(r, route)
    \/ \E r \in Workers, outcome \in RegisterOutcomes :
            Running /\ RegisterUserHandler(r, outcome)
    \/ \E r \in Workers : Running /\ RegisterUserReturn(r)
    \/ \E outcome \in SendOutcomes : Running /\ SendMail(outcome)
    \/ \E r \in Workers, outcome \in SendOutcomes :
            Running /\ SendMailRacing(r, outcome)

SpecServe == InitServe /\ [][NextServe]_vars

TypeOK ==
    /\ now \in Nat
    /\ mu \in {NoOwner, Sweeper} \cup Workers
    /\ DOMAIN clients \subseteq IPs
    /\ \A r \in Workers : rs[r].nextCalls \in 0 .. 1

(* ======================= the rate limiter's claims ===================== *)

\* positions at which a request works on the clients map
InCritical == {"lookup", "create", "seen", "allow", "unlockAllow", "unlockDeny"}
\* positions at which a request has left the rate limiter's critical section
Downstream == {"next", "downstream", "deny", "done"}

\* the limiters of ip that were created and not deleted by a sweep
LiveLimiters(ip) == created[ip] - evicted[ip]

\* C1: the registry holds at most one entry and one live limiter per client
\* IP under every interleaving: look-up and create happen under the mutex, a
\* second limiter is never created while the first is in the map, and the
\* entry of the map is the one limiter that was created last
C1_OneLimiterPerIP ==
    /\ \A ip \in IPs :
          /\ LiveLimiters(ip) = IF ip \in DOMAIN clients THEN 1 ELSE 0
          /\ ip \in DOMAIN clients => clients[ip].limiter.id = created[ip]
    /\ \A r \in Workers : pc[r] \in InCritical => mu = r

\* two first requests of one IP at once: one creates, the other waits
C1_Witness ==
    \E r1, r2 \in Workers :
        /\ r1 # r2
        /\ pc[r1] = "create" /\ pc[r2] = "lock"
        /\ rq[r1].ip = rq[r2].ip
        /\ created[rq[r1].ip] = 0

\* C2: a request never holds the mutex while the next handler runs or while
\* an error response is written; every Lock it made is matched by exactly
\* one Unlock before that point (one on the allowed and the denied path,
\* none when the limiter is disabled or the address does not parse)
C2_MutexReleasedBeforeNext ==
    \A r \in Workers :
        pc[r] \in Downstream =>
            /\ mu # r
            /\ rs[r].unlocks = rs[r].locks
            /\ rs[r].locks = IF rs[r].decision = "none" THEN 0 ELSE 1

\* a request is in the downstream handlers while another one holds the mutex
C2_Witness ==
    \E r1, r2 \in Workers :
        /\ pc[r1] = "downstream" /\ rs[r1].decision = "allow"
        /\ mu = r2 /\ pc[r2] \in InCritical

\* C3: the sweep runs its whole pass under the mutex, so no request is in
\* its critical section during a pass, and a request that looked an entry
\* up still finds it when it sets lastSeen and calls Allow (no panic)
C3_SweepExcludesRequests ==
    /\ sweepPc = "range" =>
          /\ mu = Sweeper
          /\ \A r \in Workers : pc[r] \notin InCritical
    /\ \A r \in Workers :
          /\ pc[r] \in {"seen", "allow"} => rq[r].ip \in DOMAIN clients
          /\ pc[r] # "panic"

\* a pass has deleted the entry of an IP while a request of that IP waits
\* for the mutex
C3_Witness ==
    \E r \in Workers :
        /\ sweepPc = "range"
        /\ pc[r] = "lock"
        /\ evicted[rq[r].ip] > 0
        /\ rq[r].ip \notin DOMAIN clients

\* C4: a denied request is answered 429 and never reaches the next handler;
\* an allowed request reaches the next handler exactly once and is not
\* answered 429
C4_DeniedNeverServed ==
    \A r \in Workers :
        /\ rs[r].nextCalls <= 1
        /\ rs[r].decision = "deny" =>
              /\ rs[r].nextCalls = 0
              /\ pc[r] = "done" => rs[r].status = StatusTooManyRequests
        /\ rs[r].decision = "allow" =>
              /\ rs[r].status # StatusTooManyRequests
              /\ pc[r] \in {"downstream", "done"} => rs[r].nextCalls = 1
        /\ rs[r].status = StatusTooManyRequests => rs[r].decision = "deny"

\* one request was denied with 429, another allowed and served
C4_Witness ==
    \E r1, r2 \in Workers :
        /\ pc[r1] = "done" /\ rs[r1].decision = "deny"
        /\ rs[r1].status = StatusTooManyRequests
        /\ pc[r2] = "done" /\ rs[r2].decision = "allow"
        /\ rs[r2].nextCalls = 1

\* the recorded calls i..j of ip were made within less than one second
WithinASecond(ip, i, j) == callLog[ip][j].at - callLog[ip][i].at < TicksPerSecond
\* the recorded calls i..j of ip were served by one limiter
SameLimiter(ip, i, j) == callLog[ip][j].lim = callLog[ip][i].lim
\* one of the recorded calls i..j of ip was denied
SomeDenied(ip, i, j) == \E k \in i .. j : ~callLog[ip][k].ok
\* the recorded windows of ip: first and last call
Windows(ip) == {w \in (1 .. Len(callLog[ip])) \X (1 .. Len(callLog[ip])) : w[1] <= w[2]}

\* C5 as stated: more than burst calls of one IP within less than a second
\* include a denied call
C5_Original ==
    \A ip \in env.traced : \A w \in Windows(ip) :
        (WithinASecond(ip, w[1], w[2]) /\ w[2] - w[1] + 1 > config.burst)
            => SomeDenied(ip, w[1], w[2])

\* C5 as amended: more than burst + rate calls on one limiter within less
\* than a second include a denied call (the bucket starts the window with at
\* most burst tokens and gains less than rate tokens during it)
C5_BurstPlusRate ==
    \A ip \in env.traced : \A w \in Windows(ip) :
        (/\ WithinASecond(ip, w[1], w[2])
         /\ SameLimiter(ip, w[1], w[2])
         /\ w[2] - w[1] + 1 > config.burst + config.rps)
            => SomeDenied(ip, w[1], w[2])

\* more than burst + rate calls were made within less than a second; the
\* bucket was refilled during the window, so that more than burst of them
\* were allowed, and one was denied
C5_Witness ==
    \E ip \in env.traced : \E w \in Windows(ip) :
        /\ WithinASecond(ip, w[1], w[2])
        /\ SameLimiter(ip, w[1], w[2])
        /\ w[2] - w[1] + 1 > config.burst + config.rps
        /\ Cardinality({k \in w[1] .. w[2] : callLog[ip][k].ok}) > config.burst
        /\ SomeDenied(ip, w[1], w[2])

\* consecutive recorded calls of ip are at least 1/rate seconds apart
Spaced(ip) ==
    \A i \in 2 .. Len(callLog[ip]) :
        (callLog[ip][i].at - callLog[ip][i - 1].at) * config.rps >= TicksPerSecond

\* C6: with burst >= 1, calls of one IP that are spaced at least 1/rate
\* seconds apart are never denied
C6_SpacedNeverDenied ==
    \A ip \in env.traced :
        (config.burst >= 1 /\ Spaced(ip))
            => \A i \in 1 .. Len(callLog[ip]) : callLog[ip][i].ok

\* two calls exactly 1/rate seconds apart on a bucket of one token, both
\* allowed
C6_Witness ==
    \E ip \in env.traced :
        /\ config.burst = 1
        /\ Len(callLog[ip]) >= 2
        /\ Spaced(ip)
        /\ (callLog[ip][2].at - callLog[ip][1].at) * config.rps = TicksPerSecond
        /\ callLog[ip][2].ok

\* the first n recorded calls of ip were made at the same instant
BackToBack(ip, n) ==
    /\ Len(callLog[ip]) >= n
    /\ \A i \in 1 .. n : callLog[ip][i].at = callLog[ip][1].at

\* C7: with rate 2 and burst 4, the first 4 back-to-back calls of an unseen
\* IP are allowed, the 5th back-to-back call is denied, and a call half a
\* second later is allowed
C7_Scenario ==
    \A ip \in env.traced :
        (config.rps = 2 /\ config.burst = 4) =>
            /\ \A n \in 1 .. 4 : BackToBack(ip, n) => callLog[ip][n].ok
            /\ BackToBack(ip, 5) => ~callLog[ip][5].ok
            /\ (/\ BackToBack(ip, 5)
                /\ Len(callLog[ip]) >= 6
                /\ callLog[ip][6].at = callLog[ip][5].at + TicksPerHalfSecond)
                   => callLog[ip][6].ok

\* the scenario has run to its sixth call
C7_Witness ==
    \E ip \in env.traced :
        /\ config.rps = 2 /\ config.burst = 4
        /\ BackToBack(ip, 5)
        /\ Len(callLog[ip]) = 6
        /\ callLog[ip][6].at = callLog[ip][5].at + TicksPerHalfSecond
        /\ callLog[ip][6].ok

\* the bucket of every entry holds between 0 and burst tokens
TokensInRange ==
    \A ip \in DOMAIN clients :
        /\ clients[ip].limiter.tokens >= 0
        /\ clients[ip].limiter.tokens <= config.burst * TokenUnit

\* a step that records a call of ip
Called(ip) == Len(callLog'[ip]) = Len(callLog[ip]) + 1

\* the tokens of ip's bucket at the time of the step, after the refill
Refilled(ip) ==
    LET lim == clients[ip].limiter
        filled == lim.tokens + (now - lim.last) * config.rps
    IN  IF filled > config.burst * TokenUnit THEN config.burst * TokenUnit
                                            ELSE filled

\* a call takes one token exactly when the refilled bucket holds one, and
\* a denied call leaves the limiter as it was
ConsumesOnlyAvailable ==
    \A ip \in env.traced :
        Called(ip) =>
            LET e == callLog'[ip][Len(callLog'[ip])]
            IN  /\ e.ok <=> Refilled(ip) >= TokenUnit
                /\ e.ok => clients'[ip].limiter.tokens = Refilled(ip) - TokenUnit
                /\ ~e.ok => clients'[ip].limiter = clients[ip].limiter

\* C8: every bucket holds between 0 and burst tokens in every state; a call
\* consumes a token only when one is available, a denied call consumes
\* nothing, and the refill stops at burst
C8_TokensWithinBucket == []TokensInRange /\ [][ConsumesOnlyAvailable]_vars

\* a call was denied on a bucket that holds a fraction of a token
C8_Witness ==
    \E ip \in env.traced :
        /\ ip \in DOMAIN clients
        /\ Len(callLog[ip]) >= 2
        /\ ~callLog[ip][Len(callLog[ip])].ok
        /\ Refilled(ip) > 0 /\ Refilled(ip) < TokenUnit

\* C9: once a request has set lastSeen (line 126) the entry of its IP
\* carries the time of that request through the token check, whether the
\* check then allows or denies
C9_LastSeenBeforeCheck ==
    \A r \in Workers :
        pc[r] \in {"allow", "unlockAllow", "unlockDeny"} =>
            /\ rq[r].ip \in DOMAIN clients
            /\ rq[r].seenAt >= Epoch
            /\ clients[rq[r].ip].lastSeen = rq[r].seenAt

\* a denied request has moved lastSeen of an entry that an earlier request
\* had created
C9_Witness ==
    \E r \in Workers :
        /\ pc[r] = "unlockDeny"
        /\ clients[rq[r].ip].lastSeen = rq[r].seenAt
        /\ clients[rq[r].ip].lastSeen > clients[rq[r].ip].limiter.last

\* a step that removes the entry of ip from the map
Removed(ip) == ip \in DOMAIN clients /\ ip \notin DOMAIN clients'

\* a sweep removes an entry only when its lastSeen is more than 3 minutes
\* old, and removes every entry it visits that is that old
SweepRemovesExactlyIdle ==
    \A ip \in IPs :
        /\ Removed(ip) => now - clients[ip].lastSeen > ThreeMinutes
        /\ (/\ ip \in todo /\ ip \notin todo'
            /\ ip \in DOMAIN clients
            /\ now - clients[ip].lastSeen > ThreeMinutes) => Removed(ip)

\* when a pass has visited all keys, no entry is left that was idle for more
\* than 3 minutes when the pass began
IdleGoneAfterPass ==
    (sweepPc = "range" /\ todo = {}) =>
        \A ip \in DOMAIN clients : passStart - clients[ip].lastSeen <= ThreeMinutes

\* C10: each sweep removes exactly the entries last seen more than 3 minutes
\* before it: an idle entry is gone after the pass, an entry seen within the
\* last 3 minutes is never removed
C10_SweepEvictsIdleOnly == []IdleGoneAfterPass /\ [][SweepRemovesExactlyIdle]_vars

\* a pass has removed one entry and kept another that was last seen exactly
\* 3 minutes before
C10_Witness ==
    /\ sweepPc = "range" /\ todo = {}
    /\ \E ip \in IPs : evicted[ip] > 0 /\ ip \notin DOMAIN clients
    /\ \E ip \in DOMAIN clients : now - clients[ip].lastSeen = ThreeMinutes

\* C11: with the limiter disabled every request is handed to the next handler
\* whatever the rate and whatever its remote address, no 429 is produced, and
\* the registry is left alone: no entry, no limiter, no lastSeen, no token
\* taken, the mutex never locked
C11_DisabledPassesThrough ==
    ~config.enabled =>
        /\ clients = << >>
        /\ mu \notin Workers
        /\ \A ip \in IPs : created[ip] = 0
        /\ \A r \in Workers :
              /\ pc[r] \in {"idle", "rateLimit", "next", "downstream", "done"}
              /\ rs[r].status \notin {StatusTooManyRequests,
                                      StatusInternalServerError}
              /\ rs[r].decision = "none"
              /\ rs[r].locks = 0
              /\ pc[r] \in {"downstream", "done"} => rs[r].nextCalls = 1

\* two requests at the same instant, both served, after the sweep has run
C11_Witness ==
    /\ ~config.enabled
    /\ evicted = [i \in IPs |-> 0]
    /\ now > Epoch
    /\ sweepPc = "sleep" /\ wakeAt > Epoch + SweepInterval
    /\ \A r \in Workers : pc[r] = "done" /\ rs[r].nextCalls = 1

\* the entry of ip in the map, as a sequence of at most one element
EntryOf(m, ip) == IF ip \in DOMAIN m THEN << m[ip] >> ELSE << >>

\* a step changes the entry of ip only if it is a step of a request from ip
\* between its look-up and its token check, or the sweep deleting an idle entry
OwnEntryOnly ==
    \A ip \in IPs :
        EntryOf(clients, ip) # EntryOf(clients', ip) =>
            \/ \E r \in Workers :
                  /\ rq[r].ip = ip
                  /\ pc[r] \in {"create", "seen", "allow"}
                  /\ pc'[r] # pc[r]
            \/ /\ sweepPc = "range"
               /\ ip \in todo
               /\ ip \in DOMAIN clients /\ Expired(clients[ip], now)
               /\ ip \notin DOMAIN clients'

\* the decisions recorded in log from its i-th call on are those of a bucket
\* that sees the calls of the log and nothing else, lim being the state of
\* that bucket before the i-th call
RECURSIVE Replays(_, _, _)
Replays(log, i, lim) ==
    IF i > Len(log) THEN TRUE
    ELSE LET own == IF lim.id = log[i].lim THEN lim
                    ELSE NewLimiter(log[i].lim, config.rps, config.burst)
             res == reserveN(own, log[i].at)
         IN  res.ok = log[i].ok /\ Replays(log, i + 1, res.lim)

\* the decisions of the traced client are a function of its own calls
DecidedByOwnCalls ==
    \A ip \in env.traced :
        Replays(callLog[ip], 1, NewLimiter(0, config.rps, config.burst))

\* C12: requests of one client IP never change the bucket or the lastSeen of
\* another IP, and the allow/deny decisions of a client are determined by the
\* times of its own requests alone, so that two runs that differ only in the
\* requests of other IPs decide every request of the client alike
C12_ClientsIndependent == []DecidedByOwnCalls /\ [][OwnEntryOnly]_vars

\* the traced client is denied while the other client, served in between,
\* still holds a fresh token
C12_Witness ==
    /\ \E i \in 1 .. Len(callLog["10.0.0.1"]) :
          /\ ~callLog["10.0.0.1"][i].ok
          /\ i < Len(callLog["10.0.0.1"])
    /\ "10.0.0.2" \in DOMAIN clients
    /\ clients["10.0.0.2"].lastSeen > clients["10.0.0.1"].lastSeen
    /\ clients["10.0.0.2"].limiter.tokens >= TokenUnit

(* ======================= the resolver's claims ========================= *)

\* the requests whose Authorization header authenticate has read
Read == {r \in Workers : au[r].read}
\* the request came without an Authorization header
NoHeader(r) == au[r].header.Authorization = << >>
\* the value of the request's Authorization header
Value(r) == au[r].header.Authorization[1]
\* the value is two parts separated by one space, the first the word Bearer
TwoPartsBearer(v) ==
    \E i \in 1 .. Len(v) :
        /\ v[i] = Space
        /\ SubSeq(v, 1, i - 1) = Bearer
        /\ \A j \in 1 .. Len(v) : v[j] = Space => j = i
\* authenticate answered the request with the invalid-token response
InvalidTokenAnswer(r) ==
    /\ pc[r] = "done"
    /\ rs[r].status = StatusUnauthorized
    /\ au[r].challenge = "Bearer"
    /\ au[r].message = "invalid or missing authentication token"
    /\ au[r].nextCalls = 0
    /\ au[r].user = NoUser

\* C13: a request without an Authorization header gets the AnonymousUser
\* attached and is handed to the next handler; the token store is not called
\* and authenticate writes no error response
C13_NoHeaderIsAnonymous ==
    \A r \in Read : NoHeader(r) =>
        /\ au[r].user = AnonymousUser
        /\ au[r].sets = 1
        /\ au[r].lookups = 0
        /\ pc[r] = "authNext" \/ au[r].nextCalls = 1
        /\ au[r].guards = 0 =>
              /\ au[r].challenge = "" /\ au[r].message = ""
              /\ rs[r].status \notin {StatusUnauthorized,
                                      StatusInternalServerError}

\* a request without the header served by an unguarded handler while a
\* request with a token is being looked up
C13_Witness ==
    /\ au["w1"].read /\ NoHeader("w1")
    /\ pc["w1"] = "done" /\ rs["w1"].status = StatusOK
    /\ au["w1"].nextCalls = 1 /\ au["w1"].guards = 0
    /\ pc["w2"] = "getForToken"

\* C14: a request whose Authorization header is present but is not two
\* space-separated parts with the first part "Bearer" is answered 401 with
\* WWW-Authenticate: Bearer and never reaches the next handler
C14_MalformedHeaderRejected ==
    \A r \in Read :
        (~NoHeader(r) /\ ~TwoPartsBearer(Value(r))) => InvalidTokenAnswer(r)

\* the prefix "Bearer " of a header value
BearerPrefix == Bearer \o << Space >>
HasBearerPrefix(v) ==
    Len(v) >= Len(BearerPrefix) /\ SubSeq(v, 1, Len(BearerPrefix)) = BearerPrefix
\* what follows the prefix "Bearer "
AfterBearer(v) == SubSeq(v, Len(BearerPrefix) + 1, Len(v))

\* C15: a request with the header "Bearer X", X empty or not of exactly 26
\* characters, is answered 401 and GetForToken is not called for it
C15_BadShapeNoLookup ==
    \A r \in Read :
        (/\ ~NoHeader(r)
         /\ HasBearerPrefix(Value(r))
         /\ Len(AfterBearer(Value(r))) # TokenLength)
            => InvalidTokenAnswer(r) /\ au[r].lookups = 0

\* a token of 25 characters and an empty token, both answered
C15_Witness ==
    /\ au["w1"].read /\ ~NoHeader("w1")
    /\ Value("w1") = BearerPrefix \o Repeat("A", TokenLength - 1)
    /\ au["w2"].read /\ ~NoHeader("w2")
    /\ Value("w2") = BearerPrefix
    /\ \A r \in Workers : pc[r] = "done" /\ au[r].lookups = 0

\* the stored tokens whose hash is that of the plaintext the request bears
Matching(r) == {tk \in Tokens : tk.hash = Hash(au[r].token)}
\* the matching tokens that authenticate a request at time t
Usable(r, t) ==
    {tk \in Matching(r) : tk.scope = ScopeAuthentication /\ tk.expiry > t}
\* the token store answers the request r in this step
Answered(r) == pc[r] = "getForToken" /\ pc'[r] # "getForToken"

\* the answer to a request that bears a stored token: the owner of the token
\* when the token is usable, the invalid-token response when it is not
OwnerOrInvalid ==
    \A r \in Workers :
        (Answered(r) /\ Matching(r) # {} /\ rs'[r].status # StatusInternalServerError)
            => IF Usable(r, now) # {}
                 THEN /\ pc'[r] = "authNext"
                      /\ au'[r].sets = 1
                      /\ au'[r].user.ref = "row"
                      /\ \A tk \in Usable(r, now) : au'[r].user.id = tk.userID
                 ELSE /\ pc'[r] = "done"
                      /\ rs'[r].status = StatusUnauthorized
                      /\ au'[r].challenge = "Bearer"
                      /\ au'[r].user = NoUser /\ au'[r].sets = 0
                      /\ au'[r].nextCalls = 0

\* C16: a request bearing the plaintext of a stored token resolves to exactly
\* the user that owns the token when the token has the authentication scope
\* and has not expired; when the token with the matching hash has expired or
\* has another scope the request is answered 401 as an invalid token and no
\* identity is attached
C16_TokenResolvesToOwner == [][OwnerOrInvalid]_vars

\* one request resolved to the second user, another bearing the token of the
\* first user rejected after the token expired
C16_Witness ==
    /\ pc["w1"] = "authNext" /\ au["w1"].token = TokenB
    /\ au["w1"].user.id = 2
    /\ pc["w2"] = "done" /\ au["w2"].read /\ ~NoHeader("w2")
    /\ Value("w2") = BearerPrefix \o TokenA
    /\ au["w2"].lookups = 1 /\ au["w2"].err = "ErrRecordNotFound"
    /\ now >= Epoch + TokenTTL

\* authenticate answered the request with the server-error response
ServerErrorAnswer(r) ==
    /\ pc[r] = "done"
    /\ rs[r].status = StatusInternalServerError
    /\ au[r].challenge = ""
    /\ au[r].message =
          "the server encountered a problem and could not process your request"
    /\ au[r].nextCalls = 0
    /\ au[r].user = NoUser

\* C17: a lookup that returns ErrRecordNotFound is answered 401 as an invalid
\* token, a lookup that fails with any other error is answered 500 and never
\* 401, and in both cases the next handler is not invoked
C17_LookupErrors ==
    \A r \in Workers :
        /\ au[r].err = "ErrRecordNotFound" => InvalidTokenAnswer(r)
        /\ au[r].err = "other" => ServerErrorAnswer(r)
        /\ au[r].err # "nil" => au[r].lookups = 1

\* one lookup found nothing, the other failed although the token is good
C17_Witness ==
    /\ au["w1"].err = "ErrRecordNotFound" /\ au["w1"].token = TokenE
    /\ au["w2"].err = "other" /\ au["w2"].token = TokenB

\* the request has entered authenticate
ReachedAuthenticate(r) == au[r].corsNext = 1 /\ pc[r] # "authenticate"

\* the Vary header of a response that passed enableCORS and authenticate
VaryOfAuthenticate ==
    << "Origin", "Access-Control-Request-Method", "Authorization" >>

\* C18: the response to every request that reaches authenticate carries
\* Vary: Authorization, whatever the outcome, and the header is there before
\* the Authorization header is read and any branch taken
C18_VaryAuthorization ==
    \A r \in Workers :
        /\ ReachedAuthenticate(r) => au[r].vary = VaryOfAuthenticate
        /\ au[r].read => au[r].vary = VaryOfAuthenticate

\* a request answered 500 and a request answered 401, both with the header
C18_Witness ==
    /\ \A r \in Workers : pc[r] = "done" /\ au[r].vary = VaryOfAuthenticate
    /\ rs["w1"].status = StatusInternalServerError
    /\ rs["w2"].status = StatusUnauthorized /\ au["w2"].guards = 0

\* authenticate has handed the request to the next handler
HandedOn(r) ==
    \/ pc[r] \in {"requireAuth", "requireActivated", "requirePermission",
                  "handler"}
    \/ au[r].nextCalls >= 1

\* C19: when authenticate invokes the next handler the context carries
\* exactly one identity, AnonymousUser when the request had no Authorization
\* header and otherwise the user resolved from the token; the identity is set
\* at most once per request, and on every failure path authenticate returns
\* without invoking the next handler
C19_OneIdentity ==
    \A r \in Workers :
        /\ au[r].sets <= 1
        /\ au[r].nextCalls <= 1
        /\ HandedOn(r) =>
              /\ au[r].sets = 1
              /\ IF NoHeader(r)
                    THEN au[r].user = AnonymousUser
                    ELSE /\ au[r].user \in Users
                         /\ au[r].lookups = 1 /\ au[r].err = "nil"
        /\ (au[r].guards = 0 /\ rs[r].status \in {StatusUnauthorized,
                                                   StatusInternalServerError})
              => au[r].nextCalls = 0 /\ au[r].sets = 0

\* C20: requireAuthenticatedUser invokes the wrapped handler if and only if
\* the identity of the request is not AnonymousUser; the anonymous identity
\* is answered 401 "you must be authenticated" with WWW-Authenticate: Bearer
\* and the wrapped handler is not invoked
C20_GuardAuthenticated ==
    \A r \in Workers :
        /\ au[r].wrapped <= au[r].guards
        /\ au[r].guards = 1 =>
              IF au[r].user = AnonymousUser
                THEN /\ pc[r] = "done"
                     /\ rs[r].status = StatusUnauthorized
                     /\ au[r].challenge = "Bearer"
                     /\ au[r].message =
                           "you must be authenticated to access this resource"
                     /\ au[r].wrapped = 0
                ELSE /\ au[r].user \in Users
                     /\ au[r].wrapped = 1
                     /\ pc[r] \in {"requireActivated", "requirePermission",
                                  "handler", "panic", "done"}
                     /\ rs[r].status # StatusUnauthorized

\* the guard stops an anonymous request and lets a user through whose
\* account is not activated
C20_Witness ==
    /\ au["w1"].guards = 1 /\ au["w1"].user = AnonymousUser
    /\ pc["w1"] = "done" /\ rs["w1"].status = StatusUnauthorized
    /\ au["w2"].guards = 1 /\ au["w2"].wrapped = 1
    /\ au["w2"].user.id = 2 /\ ~au["w2"].user.activated
    /\ pc["w2"] = "done" /\ rs["w2"].status = StatusOK

(* ------------------------- authorization chain ------------------------- *)

\* the request is on a route that requireActivatedUser wraps, directly or
\* under requirePermission, and both guards are behind it
PastActivatedGuard(r) ==
    /\ au[r].route.guard \in {"activated", "permission"}
    /\ pc[r] \notin {"requireAuth", "requireActivated"}

\* C21: requireActivatedUser checks authentication before activation: the
\* anonymous request is answered 401 and never reaches the activation check,
\* the authenticated user who is not activated is answered 403 "inactive
\* account", and the wrapped handler is invoked if and only if the identity
\* is neither anonymous nor inactive
C21_GuardActivated ==
    \A r \in Workers :
        /\ au[r].activations <= au[r].wrapped
        /\ au[r].inner <= au[r].activations
        /\ PastActivatedGuard(r) =>
              IF IsAnonymous(au[r].user)
                THEN /\ pc[r] = "done"
                     /\ rs[r].status = StatusUnauthorized
                     /\ au[r].activations = 0
                     /\ au[r].inner = 0
                ELSE IF ~au[r].user.activated
                  THEN /\ pc[r] = "done"
                       /\ rs[r].status = StatusForbidden
                       /\ au[r].message =
                             "your user account must be activated to access this resource"
                       /\ au[r].activations = 1
                       /\ au[r].inner = 0
                  ELSE /\ au[r].activations = 1
                       /\ au[r].inner = 1
                       /\ rs[r].status # StatusUnauthorized
                       /\ au[r].message #
                             "your user account must be activated to access this resource"

\* the user who is not activated, answered 403 on a route for activated
\* users
C21_Witness ==
    /\ pc["w1"] = "done"
    /\ au["w1"].route = [guard |-> "activated", code |-> ""]
    /\ au["w1"].user = [ref |-> "row", id |-> 2, activated |-> FALSE]
    /\ rs["w1"].status = StatusForbidden
    /\ au["w1"].writes = 1

\* C22: under requirePermission the permission store is queried only for an
\* identity that is neither anonymous nor inactive: the anonymous request is
\* answered 401 and the user who is not activated 403, in both cases without
\* a call of GetAllForUser and without the wrapped handler
C22_LookupOnlyForActivated ==
    \A r \in Workers :
        /\ au[r].permLookups <= au[r].inner
        /\ au[r].permLookups >= 1 =>
              /\ au[r].route.guard = "permission"
              /\ ~IsAnonymous(au[r].user)
              /\ au[r].user.activated
        /\ (/\ au[r].route.guard = "permission"
            /\ (IsAnonymous(au[r].user) \/ ~au[r].user.activated)) =>
              /\ au[r].permLookups = 0
              /\ au[r].permitted = 0
              /\ au[r].handled = 0
              /\ pc[r] \in {"requireAuth", "requireActivated", "done"}
              /\ pc[r] = "done" =>
                    rs[r].status = IF IsAnonymous(au[r].user)
                                     THEN StatusUnauthorized
                                     ELSE StatusForbidden

\* the user who is not activated and holds movies:read, answered 403 on a
\* route that requires movies:read, with no lookup of the permissions
C22_Witness ==
    /\ pc["w1"] = "done"
    /\ au["w1"].route = [guard |-> "permission", code |-> MoviesRead]
    /\ au["w1"].user = [ref |-> "row", id |-> 2, activated |-> FALSE]
    /\ Include(GetAllForUser(au["w1"].user.id), MoviesRead)
    /\ rs["w1"].status = StatusForbidden
    /\ au["w1"].permLookups = 0

\* the permission codes the store holds for the user
PermissionSet(userID) ==
    UNION { { row.permissions[i] : i \in 1..Len(row.permissions) } :
            row \in { x \in UsersPermissions : x.userID = userID } }

\* requirePermission has looked up the permissions of the request's user
\* without an error
LookedUp(r) ==
    /\ au[r].route.guard = "permission"
    /\ au[r].permLookups = 1
    /\ au[r].permErr = "nil"

\* C23: for an authenticated, activated user whose permission lookup
\* succeeds, requirePermission(code) invokes the wrapped handler if and only
\* if code is in the user's permission set and otherwise answers 403 "not
\* permitted"; movies:write is denied to the set {movies:read} and allowed to
\* {movies:read, movies:write}
C23_PermissionDecides ==
    \A r \in Workers :
        /\ au[r].permitted <= au[r].permLookups
        /\ LookedUp(r) =>
              /\ ~IsAnonymous(au[r].user) /\ au[r].user.activated
              /\ IF au[r].route.code \in PermissionSet(au[r].user.id)
                   THEN /\ au[r].permitted = 1
                        /\ pc[r] \in {"handler", "panic", "done"}
                        /\ rs[r].status # StatusForbidden
                   ELSE /\ au[r].permitted = 0
                        /\ au[r].handled = 0
                        /\ pc[r] = "done"
                        /\ rs[r].status = StatusForbidden
                        /\ au[r].message =
                              "your user account doesn't have the necessary permissions to access this resource"
              /\ (au[r].route.code = MoviesWrite
                    /\ PermissionSet(au[r].user.id) = { MoviesRead })
                    => au[r].permitted = 0 /\ rs[r].status = StatusForbidden
              /\ (au[r].route.code = MoviesWrite
                    /\ PermissionSet(au[r].user.id) = { MoviesRead, MoviesWrite })
                    => au[r].permitted = 1

\* movies:write allowed to the user who holds movies:read and movies:write,
\* whose handler has answered
C23_Witness ==
    /\ LookedUp("w1")
    /\ au["w1"].route.code = MoviesWrite
    /\ PermissionSet(au["w1"].user.id) = { MoviesRead, MoviesWrite }
    /\ pc["w1"] = "done"
    /\ rs["w1"].status = StatusOK
    /\ au["w1"].handled = 1

\* C24: when the lookup of the permissions fails inside requirePermission the
\* request is answered 500 with the generic message, the wrapped handler is
\* not invoked, and the failure is turned neither into a 403 nor into an
\* allow
C24_LookupFailureIs500 ==
    \A r \in Workers :
        au[r].permErr # "nil" =>
            /\ au[r].route.guard = "permission"
            /\ au[r].permLookups = 1
            /\ pc[r] = "done"
            /\ rs[r].status = StatusInternalServerError
            /\ au[r].message =
                  "the server encountered a problem and could not process your request"
            /\ au[r].writes = 1
            /\ au[r].permitted = 0
            /\ au[r].handled = 0

\* a failed lookup for a user who holds the required code
C24_Witness ==
    /\ au["w1"].permErr = "other"
    /\ au["w1"].route.code \in PermissionSet(au["w1"].user.id)
    /\ rs["w1"].status = StatusInternalServerError

(* ---------------------------- panic recovery --------------------------- *)

\* the answer of the recovery layer: one response, 500 with the generic
\* message and Connection: close, without the panic value
RecoveredAnswer(r) ==
    /\ au[r].writes = 1
    /\ rs[r].status = StatusInternalServerError
    /\ au[r].message =
          "the server encountered a problem and could not process your request"
    /\ au[r].message # au[r].panicValue
    /\ rs[r].connClose

\* the request has panicked and its goroutine has left the handler chain
Recovered(r) == au[r].panicValue # "" /\ pc[r] = "done"

OthersUntouched ==
    \A r \in Workers :
        (pc[r] = "panic" /\ pc'[r] = "done") =>
            \A q \in Workers \ {r} :
                pc'[q] = pc[q] /\ au'[q] = au[q] /\ rs'[q] = rs[q]

C26_MissingIdentityPanics ==
    \A r \in Workers :
        (au[r].guards >= 1 /\ au[r].user = NoUser) =>
            /\ pc[r] \in {"panic", "done"}
            /\ au[r].panicValue = MissingUserValue
            /\ au[r].wrapped = 0 /\ au[r].inner = 0 /\ au[r].permitted = 0
            /\ au[r].activations = 0 /\ au[r].permLookups = 0
            /\ au[r].handled = 0
            /\ rs[r].status \notin {StatusOK, StatusUnauthorized,
                                    StatusForbidden}
            /\ pc[r] = "done" => RecoveredAnswer(r)

\* requests on a route guarded by requirePermission and on a route guarded
\* by requireActivatedUser, both without an identity, answered 500
C26_Witness ==
    /\ \A r \in Workers :
          /\ pc[r] = "done" /\ au[r].user = NoUser /\ au[r].guards = 1
          /\ rs[r].status = StatusInternalServerError
    /\ au["w1"].route.guard = "permission"
    /\ au["w2"].route.guard = "activated"

(* ----------------------------- stage order ----------------------------- *)

\* the stages that have worked on the request
EnteredCORS(r) == au[r].vary # << >>
EnteredAuthenticate(r) ==
    \/ \E i \in 1..Len(au[r].vary) : au[r].vary[i] = "Authorization"
    \/ au[r].read \/ au[r].lookups > 0 \/ au[r].sets > 0
EnteredAuthorization(r) ==
    au[r].guards > 0 \/ au[r].activations > 0 \/ au[r].permLookups > 0
EnteredHandler(r) == au[r].handled > 0

\* authenticate has answered the request itself
RejectedByAuthenticate(r) ==
    \/ au[r].err # "nil"
    \/ au[r].message = "invalid or missing authentication token"

\* the guards that wrap the handler of the route have all called their
\* wrapped handler
GuardsPassed(r) ==
    /\ au[r].route.guard \in {"authenticated", "activated", "permission"}
          => au[r].wrapped = 1
    /\ au[r].route.guard \in {"activated", "permission"} => au[r].inner = 1
    /\ au[r].route.guard = "permission" => au[r].permitted = 1

\* C27: the stages of one request run one after the other in the order
\* recovery, rate limit, CORS, authenticate, authorization chain, handler: a
\* stage starts only after every earlier stage has passed the request on, so
\* a request rejected by the rate limiter never reaches authenticate and its
\* token lookup, a request rejected by authenticate never reaches a guard or
\* the handler, and a panic of any stage ends in the recovery layer
C27_StageOrder ==
    \A r \in Workers :
        /\ rs[r].nextCalls <= 1 /\ au[r].corsNext <= 1 /\ au[r].nextCalls <= 1
        /\ au[r].guards <= 1 /\ au[r].activations <= 1
        /\ au[r].permLookups <= 1 /\ au[r].handled <= 1
        /\ EnteredCORS(r) => rs[r].nextCalls = 1 /\ rs[r].decision = "allow"
        /\ EnteredAuthenticate(r) => EnteredCORS(r) /\ au[r].corsNext = 1
        /\ EnteredAuthorization(r) =>
              /\ EnteredAuthenticate(r) /\ au[r].nextCalls = 1
              /\ au[r].activations <= au[r].wrapped
              /\ au[r].wrapped <= au[r].guards
              /\ au[r].permLookups <= au[r].inner
              /\ au[r].inner <= au[r].activations
        /\ EnteredHandler(r) =>
              /\ EnteredAuthenticate(r) /\ au[r].nextCalls = 1
              /\ GuardsPassed(r)
        /\ rs[r].status = StatusTooManyRequests =>
              /\ ~EnteredCORS(r) /\ ~EnteredAuthenticate(r)
              /\ au[r].lookups = 0
              /\ ~EnteredAuthorization(r) /\ ~EnteredHandler(r)
        /\ RejectedByAuthenticate(r) =>
              /\ pc[r] = "done"
              /\ au[r].nextCalls = 0
              /\ ~EnteredAuthorization(r) /\ ~EnteredHandler(r)
        /\ pc[r] = "panic" => au[r].panicValue # ""
        /\ (Recovered(r) /\ ~au[r].startedAtPanic) => RecoveredAnswer(r)

\* a request rejected by the rate limiter, which no later stage has touched
C27_Witness ==
    /\ pc["w1"] = "done"
    /\ rs["w1"].status = StatusTooManyRequests
    /\ rs["w1"].decision = "deny"
    /\ au["w1"] = NoAuth

(* ------------------------------ shutdown ------------------------------- *)

\* serve() has returned after a signal, or the process has exited after one
ReturnedAfterSignal ==
    /\ sig.pc # "quit"
    /\ main.pc = "returned" \/ exitCode # NoExit

\* C28: on every shutdown path after SIGINT or SIGTERM serve() does not
\* return and the process does not exit while a background goroutine that a
\* handler started is still running, however long it runs
C28_NoReturnWhileTaskRuns ==
    ReturnedAfterSignal => tasks = 0

\* C29 as stated: every request in flight when the signal is received has
\* completed, its response sent, before serve() returns and the process exits
C29_InFlightComplete ==
    ReturnedAfterSignal =>
        \A r \in sig.inFlight : pc[r] = "done" /\ rs[r].status # NoStatus

\* C29, amended: a request in flight when the signal is received has
\* completed before serve() returns unless the 5-second context of Shutdown
\* expired first, in which case serve() returns the error of the context and
\* the process exits with status 1; serve() returns nil only when no request
\* is in flight
C29_InFlightWithinGrace ==
    ReturnedAfterSignal =>
        /\ \A r \in sig.inFlight :
              \/ pc[r] = "done" /\ rs[r].status # NoStatus
              \/ /\ main.err = "deadline"
                 /\ now >= sig.deadline
                 /\ exitCode \in {NoExit, 1}
        /\ main.err \in {"nil", "close"} => Active = {}

\* serve() has returned nil after the request that was in flight at the
\* signal was answered
C29_Witness ==
    /\ ReturnedAfterSignal
    /\ main.err = "nil"
    /\ sig.inFlight = {"w1"}
    /\ pc["w1"] = "done"
    /\ rs["w1"].status = StatusAccepted
    /\ exitCode = 0

\* C30: every background goroutine that a handler starts increments the
\* counter of app.wg before it is started and decrements it once when it
\* ends, so the counter equals the number of running background goroutines
\* and app.wg.Wait() in serve() blocks until none runs
C30_CounterTracksTasks ==
    /\ wg = tasks
    /\ (sig.pc = "sendNil" /\ main.pc = "recv") => tasks = 0

\* C31: serve() returns nil, and the process exits with status 0, exactly
\* when ListenAndServe returned ErrServerClosed and Shutdown returned nil; it
\* returns an error, and the process exits with another status, when
\* ListenAndServe failed with another error or Shutdown returned an error;
\* ErrServerClosed itself is never returned
C31_ServeResult ==
    /\ main.pc = "returned" =>
          /\ main.err = "nil" <=>
                (main.las = "ErrServerClosed" /\ sig.result = "nil")
          /\ main.las = "listen" => main.err = "listen"
          /\ (main.las = "ErrServerClosed" /\ sig.result # "nil") =>
                main.err = sig.result /\ main.err \in {"deadline", "close"}
          /\ main.err # "ErrServerClosed"
    /\ exitCode # NoExit =>
          /\ main.pc = "returned"
          /\ exitCode = 0 <=> main.err = "nil"

\* the process has exited with status 1 after Shutdown ran into its deadline
C31_Witness ==
    /\ exitCode = 1
    /\ main.las = "ErrServerClosed"
    /\ sig.result = "deadline"
    /\ main.err = "deadline"

\* the state of the server lifecycle: Starting 1, Serving 2, ShuttingDown 3,
\* Drained 4, Stopped 5
Lifecycle ==
    IF main.pc = "returned" \/ exitCode # NoExit THEN 5
    ELSE IF sig.pc = "shutdown" THEN 3
    ELSE IF sig.pc # "quit" THEN 4
    ELSE IF main.pc = "listen" THEN 2
    ELSE 1

\* C32: the server lifecycle only moves forward through Starting, Serving,
\* ShuttingDown, Drained, Stopped and never goes back to a state it left;
\* serve() returns nil only after a signal was received, then Shutdown
\* returned, then the wait on the background tasks returned
C32_LifecycleForward ==
    /\ [][Lifecycle' >= Lifecycle]_vars
    /\ []((main.pc = "returned" /\ main.err = "nil") =>
            /\ sig.pc = "end"
            /\ sig.result = "nil"
            /\ sig.waits = 1
            /\ sig.sends = 1
            /\ ~listening)
    /\ [](sig.waits = 1 => sig.result # "none")
    /\ [](sig.result # "none" => sig.pc \notin {"quit", "shutdown"})

\* serve() has returned nil
C32_Witness ==
    /\ main.pc = "returned" /\ main.err = "nil"
    /\ Lifecycle = 5
    /\ sig.waits = 1

\* C33: a panic inside the background goroutine of a handler is recovered in
\* that goroutine and only logged: the step leaves the exit status of the
\* process and every request alone, the process never ends with the status
\* of an unrecovered panic and no request unwinds into recoverPanic
C33_TaskPanicOnlyLogged ==
    /\ [][("panic" \in logged' /\ "panic" \notin logged) =>
            /\ exitCode' = exitCode
            /\ main' = main /\ sig' = sig
            /\ pc' = pc /\ rs' = rs
            /\ \A r \in Workers :
                  /\ au'[r].panicValue = au[r].panicValue
                  /\ au'[r].writes = au[r].writes
                  /\ au'[r].message = au[r].message
                  /\ au'[r].regErr = au[r].regErr]_vars
    /\ [](exitCode \in {NoExit, 0, 1})
    /\ [](\A r \in Workers : pc[r] # "panic" /\ au[r].panicValue = "")

\* a goroutine panicked, and the server went on to a clean shutdown
C33_Witness ==
    /\ "panic" \in logged
    /\ exitCode = 0

\* C34: whatever the email goroutine does, a registration whose insert
\* succeeded is answered once, with 202 and the user, and the handler never
\* calls serverErrorResponse for it
C34_ResponseIndependentOfMail ==
    \A r \in Workers :
        (pc[r] = "done" /\ au[r].mail # "none") =>
            /\ rs[r].status = StatusAccepted
            /\ au[r].writes = 1
            /\ au[r].message = ""

\* C37: on every shutdown path the signal goroutine sends exactly one value
\* on shutdownError, serve() receives it and the goroutine then ends: it is
\* never at a send while serve() has returned and receives no more
C37_OneSendThenEnd ==
    /\ sig.sends <= 1
    /\ sig.sends = 1 => (sig.pc = "end" /\ main.pc = "returned")
    /\ (main.pc = "returned" /\ main.las = "ErrServerClosed") =>
          /\ sig.sends = 1
          /\ sig.pc \notin {"sendErr", "sendNil"}

\* the goroutine after a failed Shutdown: its error was received, serve()
\* has returned it, and the goroutine is at the send of nil
C37_BlockedAfterError ==
    /\ sig.result \in {"deadline", "close"}
    /\ sig.sends = 1
    /\ main.pc = "returned" /\ main.err = sig.result
    /\ sig.pc = "sendNil"

\* the requests showMovieHandler has answered
ShownMovie == { r \in Workers : pc[r] = "done" /\ au[r].param # << >> }

\* the movie with the id of the parameter is in the Movie Store
MovieExists(param) ==
    /\ ParseInt(param).err = "nil"
    /\ ParseInt(param).n >= 1
    /\ MockMovieGet(ParseInt(param).n).err = "nil"

\* C35: GET /v1/movies/:id by a permitted user answers 200 with the stored
\* movie when a movie with that id exists and 404 with the not-found message
\* when the id does not exist, is below 1 or is not a base-10 integer
C35_ShowMovie ==
    \A r \in ShownMovie :
        IF MovieExists(au[r].param)
          THEN /\ rs[r].status = StatusOK
               /\ au[r].movie = MockMovieGet(ParseInt(au[r].param).n).movie
          ELSE /\ rs[r].status = StatusNotFound
               /\ au[r].message = "the requested resource could not be found"
               /\ au[r].movie = << >>

\* what showMovieHandler does for an id that is not in the Movie Store
C35_MissingMovieShown ==
    \E r \in ShownMovie :
        /\ au[r].param = << "2" >>
        /\ rs[r].status = StatusOK
        /\ au[r].movie.ID = 2

\* the requests of an activated user without any permission in the
\* Permission Store that requirePermission asked
AskedWithoutPermission ==
    { r \in Workers :
        /\ pc[r] = "done"
        /\ au[r].permLookups = 1
        /\ au[r].user # NoUser /\ au[r].user.activated
        /\ au[r].permErr # "other"
        /\ \/ au[r].store = "db" /\ GetAllForUser(au[r].user.id) = << >>
           \/ au[r].store = "mock"
                /\ MockGetAllForUser(au[r].user.id).permissions = << >> }

\* C36: requirePermission answers 403 and not 500 for an authenticated and
\* activated user who has no permission at all, with the database-backed and
\* with the mock Permission Store
C36_NoPermissionIs403 ==
    \A r \in AskedWithoutPermission :
        /\ rs[r].status = StatusForbidden
        /\ au[r].message = "your user account doesn't have the necessary permissions to access this resource"
        /\ au[r].handled = 0

\* the mock Permission Store has no row for the user and the answer is 500
C36_MockAnswers500 ==
    \E r \in AskedWithoutPermission :
        /\ au[r].store = "mock"
        /\ au[r].permErr = "ErrRecordNotFound"
        /\ rs[r].status = StatusInternalServerError

\* the database has no row for the user and the answer is 403
C36_DatabaseAnswers403 ==
    \E r \in AskedWithoutPermission :
        /\ au[r].store = "db"
        /\ au[r].user.id = 4
        /\ rs[r].status = StatusForbidden

\* request r has left rateLimit with the mutex released: answered 429, or
\* handed to the next handler
LeftRateLimit(r) ==
    /\ mu # r
    /\ rs[r].locks = rs[r].unlocks
    /\ \/ pc[r] = "done" /\ rs[r].status = StatusTooManyRequests
       \/ pc[r] = "downstream"

\* request r was answered 500 because its RemoteAddr has no port, before
\* the mutex
LeftBeforeMutex(r) ==
    /\ mu # r
    /\ rs[r].locks = 0
    /\ pc[r] = "done" /\ rs[r].status = StatusInternalServerError

\* every sweep pass that is due acquires the mutex and releases it
SweepPasses ==
    /\ (sweepPc = "lock") ~> (mu = Sweeper)
    /\ (mu = Sweeper) ~> (mu # Sweeper /\ sweepPc = "sleep")

Recreated ==
    { ip \in DOMAIN clients :
        /\ kept[ip] # NoEntry
        /\ clients[ip].limiter.last = ZeroTime
        /\ clients[ip].limiter.id = created[ip] }

RefillsWithinThreeMinutes ==
    config.rps * ThreeMinutes >= config.burst * TokenUnit

\* the last Allow() of the entry read the clock no later than the request
\* that set its lastSeen
AllowedWhenSeen(entry) == entry.limiter.last <= entry.lastSeen

C39_RecreatedFuller ==
    \E ip \in Recreated :
        /\ config.burst = WideBurst
        /\ AllowedWhenSeen(kept[ip])
        /\ advance(clients[ip].limiter, now) = config.burst * TokenUnit
        /\ advance(kept[ip].limiter, now) < config.burst * TokenUnit

\* C40: MovieModel.Update changes a movie only when the stored version is
\* the version of the supplied movie and then raises the stored version by
\* exactly 1; otherwise the table is left alone and a version that differs
\* is answered ErrEditConflict. Of the updates that read one version at most
\* one succeeds, and every update that succeeds starts from the version the
\* update before it left
C40_OptimisticLock ==
    /\ [][\A r \in Workers :
            (pc[r] = "update" /\ pc'[r] = "done") =>
                LET id == au[r].movie.ID
                    matches == movies[id].Version = au[r].movie.Version
                IN  /\ movies' # movies =>
                          /\ matches
                          /\ au'[r].updErr = "nil"
                          /\ movies'[id].Version = movies[id].Version + 1
                          /\ movies'[id].Title = au'[r].movie.Title
                          /\ au'[r].movie.Version = movies'[id].Version
                    /\ ~matches =>
                          /\ au'[r].updErr \in {"ErrEditConflict", "other"}
                          /\ movies' = movies
                    /\ au'[r].updErr # "nil" => movies' = movies
                    /\ au'[r].updErr = "ErrEditConflict" => ~matches]_vars
    /\ [](\A i, j \in 1..Len(updateLog) :
            (i # j /\ updateLog[i].id = updateLog[j].id) =>
                updateLog[i].supplied # updateLog[j].supplied)
    /\ [](\A i \in 1..Len(updateLog) :
            /\ updateLog[i].supplied = updateLog[i].from
            /\ updateLog[i].to = updateLog[i].from + 1
            /\ i > 1 => updateLog[i].from = updateLog[i - 1].to)

\* both callers read version 1; the update of one went through and the
\* update of the other was answered ErrEditConflict
C40_Witness ==
    /\ au["w1"].readVersion = 1 /\ au["w2"].readVersion = 1
    /\ au["w1"].updErr = "nil"
    /\ au["w2"].updErr = "ErrEditConflict"
    /\ movies[1].Version = 2

====
